---- MODULE Spec2Model ----
(***************************************************************************)
(* A model of the esp_mcp_server protocol engine: the registry of tools    *)
(* and resources with the start and stop of the server                     *)
(* (esp_mcp_server.c), the JSON-RPC message layer (json_rpc.c), the URI    *)
(* template matcher (uri_template.c) and the schema validator              *)
(* (schema_validator.c).                                                   *)
(*                                                                         *)
(* Conventions.                                                            *)
(*  - A C string is the sequence of its characters, so that strcmp,        *)
(*    strlen and strtok are computed on the characters.                    *)
(*  - A char* is a tagged value: NULL, a string literal, a heap buffer of  *)
(*    the caller (read through callerBuf) or a heap copy owned by the      *)
(*    registry.  A cJSON* is modelled the same way over callerJson.        *)
(*  - A cJSON value is a record tagged by its type; an object is a         *)
(*    function from member names to values, with the order of its members  *)
(*    where a loop over them can tell (Ordered); duplicate member names    *)
(*    are not modelled.  Member names are compared exactly;                *)
(*    cJSON_GetObjectItem ignores their case, and the documents of the     *)
(*    model spell every member name in lower case as the code does.        *)
(*  - tools and resources hold the slots below tool_count and              *)
(*    resource_count.  A slot at or above the count is dead storage: every *)
(*    one of its fields is assigned again before the count is incremented. *)
(*    Between the steps RegisterWrite and RegisterCount tools also holds   *)
(*    the slot that has been written and is not counted yet.               *)
(*  - Allocation inside registration can fail (the alloc argument);        *)
(*    allocation inside message dispatch is taken to succeed.              *)
(***************************************************************************)
EXTENDS Integers, Sequences, FiniteSets, TLC

VARIABLES
    tools, tool_count, tool_capacity,
    resources, resource_count, resource_capacity,
    active_sessions, http_server,
    callerBuf, callerJson,
    ok_tools, ok_resources,
    registering, dispatching,
    last

vars == <<tools, tool_count, tool_capacity, resources, resource_count,
          resource_capacity, active_sessions, http_server, callerBuf,
          callerJson, ok_tools, ok_resources, registering, dispatching,
          last>>

registry == <<tools, tool_count, resources, resource_count>>

-----------------------------------------------------------------------------
(* Bounds of the model *)

MaxTools == 2
MaxResources == 2
MaxGrow == 9
MaxMem == 1

-----------------------------------------------------------------------------
(* Character strings of the program text *)

S_2_0 == <<"2", ".", "0">>
S_initialize == <<"i", "n", "i", "t", "i", "a", "l", "i", "z", "e">>
S_initialized == <<"i", "n", "i", "t", "i", "a", "l", "i", "z", "e", "d">>
S_ping == <<"p", "i", "n", "g">>
S_tools_list == <<"t", "o", "o", "l", "s", "/", "l", "i", "s", "t">>
S_tools_call == <<"t", "o", "o", "l", "s", "/", "c", "a", "l", "l">>
S_resources_list == <<"r", "e", "s", "o", "u", "r", "c", "e", "s", "/", "l", "i", "s", "t">>
S_resources_read == <<"r", "e", "s", "o", "u", "r", "c", "e", "s", "/", "r", "e", "a", "d">>
S_get_system_info == <<"g", "e", "t", "_", "s", "y", "s", "t", "e", "m", "_", "i", "n", "f", "o">>
S_system_status_uri == <<"e", "s", "p", "3", "2", ":", "/", "/", "s", "y", "s", "t", "e", "m", "/", "s", "t", "a", "t", "u", "s">>
S_system_status == <<"s", "y", "s", "t", "e", "m", "_", "s", "t", "a", "t", "u", "s">>
S_text_plain == <<"t", "e", "x", "t", "/", "p", "l", "a", "i", "n">>
S_Unknown_tool == <<"U", "n", "k", "n", "o", "w", "n", " ", "t", "o", "o", "l">>
S_Resource_not_found == <<"R", "e", "s", "o", "u", "r", "c", "e", " ", "n", "o", "t", " ", "f", "o", "u", "n", "d">>
S_pong == <<"p", "o", "n", "g">>
S_object == <<"o", "b", "j", "e", "c", "t">>
S_text == <<"t", "e", "x", "t">>
S_Parse_error == <<"P", "a", "r", "s", "e", " ", "e", "r", "r", "o", "r">>
S_Invalid_request == <<"I", "n", "v", "a", "l", "i", "d", " ", "r", "e", "q", "u", "e", "s", "t">>
S_Method_not_found == <<"M", "e", "t", "h", "o", "d", " ", "n", "o", "t", " ", "f", "o", "u", "n", "d">>
S_Internal_error == <<"I", "n", "t", "e", "r", "n", "a", "l", " ", "e", "r", "r", "o", "r">>
S_Invalid_params == <<"I", "n", "v", "a", "l", "i", "d", " ", "p", "a", "r", "a", "m", "s">>
S_invalid_params == <<"i", "n", "v", "a", "l", "i", "d", "_", "p", "a", "r", "a", "m", "s">>
S_protocol_version == <<"2", "0", "2", "5", "-", "0", "6", "-", "1", "8">>
S_System_Information == <<"S", "y", "s", "t", "e", "m", " ", "I", "n", "f", "o", "r", "m", "a", "t", "i", "o", "n">>
S_Get_ESP32_system_information == <<"G", "e", "t", " ", "E", "S", "P", "3", "2", " ", "s", "y", "s", "t", "e", "m", " ", "i", "n", "f", "o", "r", "m", "a", "t", "i", "o", "n">>
S_System_Status == <<"S", "y", "s", "t", "e", "m", " ", "S", "t", "a", "t", "u", "s">>
S_server_name == <<"E", "S", "P", "3", "2", " ", "M", "C", "P", " ", "S", "e", "r", "v", "e", "r">>
S_server_version == <<"1", ".", "0", ".", "0">>
S_Invalid_parameters == <<"I", "n", "v", "a", "l", "i", "d", " ", "p", "a", "r", "a", "m", "e", "t", "e", "r", "s">>
S_Unknown_error == <<"U", "n", "k", "n", "o", "w", "n", " ", "e", "r", "r", "o", "r">>
S_Current_ESP32_system_status == <<"C", "u", "r", "r", "e", "n", "t", " ", "E", "S", "P", "3", "2", " ", "s", "y", "s", "t", "e", "m", " ", "s", "t", "a", "t", "u", "s">>

-----------------------------------------------------------------------------
(* esp_err_t values *)

ESP_OK == "ESP_OK"
ESP_FAIL == "ESP_FAIL"
ESP_ERR_NO_MEM == "ESP_ERR_NO_MEM"
ESP_ERR_INVALID_ARG == "ESP_ERR_INVALID_ARG"
ESP_ERR_INVALID_STATE == "ESP_ERR_INVALID_STATE"
ESP_ERR_NOT_SUPPORTED == "ESP_ERR_NOT_SUPPORTED"

(* JSON-RPC 2.0 error codes *)

JSONRPC_PARSE_ERROR == -32700
JSONRPC_INVALID_REQUEST == -32600
JSONRPC_METHOD_NOT_FOUND == -32601
JSONRPC_INVALID_PARAMS == -32602
JSONRPC_INTERNAL_ERROR == -32603

-----------------------------------------------------------------------------
(* cJSON values.  Absent is the NULL cJSON pointer. *)

Absent == [t |-> "absent"]
JNull == [t |-> "null"]
JBool(b) == [t |-> "bool", b |-> b]
JNum(n) == [t |-> "number", n |-> n]
JStr(s) == [t |-> "string", s |-> s]
JArr(a) == [t |-> "array", a |-> a]
JObj(m) == [t |-> "object", m |-> m]

cJSON_IsString(v) == v.t = "string"

cJSON_GetObjectItem(v, key) ==
    IF v.t = "object" /\ key \in DOMAIN v.m THEN v.m[key] ELSE Absent

(* The object built by successive cJSON_Add...ToObject calls: members is a
   set of <<name, value>> pairs, a pair whose value is Absent is not added. *)
ObjectOf(members) ==
    LET present == {p \in members : p[2] # Absent}
    IN  JObj([k \in {p[1] : p \in present} |->
                 (CHOOSE p \in present : p[1] = k)[2]])

(* The members of an object are a list: Ordered gives the members of v the
   order keys, and an object that was not given one has a fixed order. *)
Ordered(v, keys) == [t |-> "object", m |-> v.m, keys |-> keys]

RECURSIVE Enumerated(_)
Enumerated(names) ==
    IF names = {}
    THEN <<>>
    ELSE LET k == CHOOSE n \in names : TRUE
         IN  <<k>> \o Enumerated(names \ {k})

Keys(v) == IF "keys" \in DOMAIN v THEN v.keys ELSE Enumerated(DOMAIN v.m)

-----------------------------------------------------------------------------
(* Pointers *)

NULL == [k |-> "null"]
Lit(s) == [k |-> "lit", s |-> s]
Buf(b) == [k |-> "buf", b |-> b]
Own(s) == [k |-> "own", s |-> s]
JBuf(j) == [k |-> "jbuf", b |-> j]
JOwn(v) == [k |-> "jown", v |-> v]

NULL_FN == "NULL"

(* The string a char* points to. *)
Deref(p) ==
    IF p.k = "buf" THEN callerBuf[p.b] ELSE p.s

(* The cJSON tree a cJSON* points to. *)
JDeref(p) ==
    IF p.k = "jbuf" THEN callerJson[p.b] ELSE p.v

strdup(p, ok) ==
    IF ok THEN Own(Deref(p)) ELSE NULL

cJSON_Duplicate(p, ok) ==
    IF ok THEN JOwn(JDeref(p)) ELSE NULL

strcmp_eq(p, q) == Deref(p) = Deref(q)

-----------------------------------------------------------------------------
(* The registry: esp_mcp_server_start leaves both tables empty with room
   for 8 entries each. *)

InitialToolCapacity == 8
InitialResourceCapacity == 8

NoConfig == [k |-> "noconfig"]

(* expand_tool_array: the capacity after the call and its return value;
   ok is the outcome of realloc. *)
expand_tool_array(ok) ==
    IF tool_count >= tool_capacity
    THEN IF ok
         THEN [ret |-> ESP_OK, capacity |-> tool_capacity * 2]
         ELSE [ret |-> ESP_ERR_NO_MEM, capacity |-> tool_capacity]
    ELSE [ret |-> ESP_OK, capacity |-> tool_capacity]

expand_resource_array(ok) ==
    IF resource_count >= resource_capacity
    THEN IF ok
         THEN [ret |-> ESP_OK, capacity |-> resource_capacity * 2]
         ELSE [ret |-> ESP_ERR_NO_MEM, capacity |-> resource_capacity]
    ELSE [ret |-> ESP_OK, capacity |-> resource_capacity]

(* A variant of MissingToolArgument that does not test the handler; under
   it C2_FailedRegistration fails. *)
MissingToolArgument_name_only(cfg) ==
    cfg.name = NULL

(* A variant of MissingToolArgument that also refuses the empty name; under
   it C3_Amended fails. *)
MissingToolArgument_or_empty_name(cfg) ==
    \/ cfg.name = NULL
    \/ Deref(cfg.name) = <<>>
    \/ cfg.handler = NULL_FN

(* The argument check of esp_mcp_server_register_tool on a configuration
   that was passed. *)
MissingToolArgument(cfg) ==
    cfg.name = NULL \/ cfg.handler = NULL_FN

(* The argument check of esp_mcp_server_register_resource. *)
MissingResourceArgument(cfg) ==
    cfg.uri_template = NULL \/ cfg.name = NULL \/ cfg.handler = NULL_FN

(* A variant of ToolExists that finds no entry; under it C1_Amended fails. *)
ToolExists_never(name) ==
    FALSE

(* The duplicate check of esp_mcp_server_register_tool. *)
ToolExists(name) ==
    \E i \in 1..tool_count : strcmp_eq(tools[i].name, name)

(* The duplicate check of esp_mcp_server_register_resource. *)
ResourceExists(name) ==
    \E i \in 1..resource_count : strcmp_eq(resources[i].name, name)

(* The entry written to slot tool_count. *)
NewTool(cfg, alloc) ==
    [name |-> strdup(cfg.name, alloc.name),
     title |-> IF cfg.title # NULL THEN strdup(cfg.title, alloc.title) ELSE NULL,
     description |-> IF cfg.description # NULL
                     THEN strdup(cfg.description, alloc.description) ELSE NULL,
     input_schema |-> IF cfg.input_schema # NULL
                      THEN cJSON_Duplicate(cfg.input_schema, alloc.input_schema)
                      ELSE NULL,
     handler |-> cfg.handler,
     user_data |-> cfg.user_data]

(* The entry written to slot resource_count. *)
NewResource(cfg, alloc) ==
    [uri_template |-> strdup(cfg.uri_template, alloc.uri_template),
     name |-> strdup(cfg.name, alloc.name),
     title |-> IF cfg.title # NULL THEN strdup(cfg.title, alloc.title) ELSE NULL,
     description |-> IF cfg.description # NULL
                     THEN strdup(cfg.description, alloc.description) ELSE NULL,
     mime_type |-> IF cfg.mime_type # NULL
                   THEN strdup(cfg.mime_type, alloc.mime_type) ELSE NULL,
     handler |-> cfg.handler,
     user_data |-> cfg.user_data]

ToolsAfter(ret, tbl, count, capacity) ==
    [ret |-> ret, tools |-> tbl, tool_count |-> count, tool_capacity |-> capacity]

ResourcesAfter(ret, tbl, count, capacity) ==
    [ret |-> ret, resources |-> tbl, resource_count |-> count,
     resource_capacity |-> capacity]

(* esp_mcp_server_register_tool: the return value and the table after the
   call.  handle is FALSE for a NULL server handle. *)
esp_mcp_server_register_tool(handle, cfg, alloc) ==
    IF ~handle \/ cfg = NoConfig
    THEN ToolsAfter(ESP_ERR_INVALID_ARG, tools, tool_count, tool_capacity)
    ELSE IF MissingToolArgument(cfg)
    THEN ToolsAfter(ESP_ERR_INVALID_ARG, tools, tool_count, tool_capacity)
    ELSE IF ToolExists(cfg.name)
    THEN ToolsAfter(ESP_ERR_INVALID_STATE, tools, tool_count, tool_capacity)
    ELSE LET e == expand_tool_array(alloc.grow)
             entry == NewTool(cfg, alloc)
         IN  IF e.ret # ESP_OK
             THEN ToolsAfter(e.ret, tools, tool_count, tool_capacity)
             ELSE IF entry.name = NULL
             THEN ToolsAfter(ESP_ERR_NO_MEM, tools, tool_count, e.capacity)
             ELSE ToolsAfter(ESP_OK, Append(tools, entry), tool_count + 1,
                             e.capacity)

esp_mcp_server_register_resource(handle, cfg, alloc) ==
    IF ~handle \/ cfg = NoConfig
    THEN ResourcesAfter(ESP_ERR_INVALID_ARG, resources, resource_count,
                        resource_capacity)
    ELSE IF MissingResourceArgument(cfg)
    THEN ResourcesAfter(ESP_ERR_INVALID_ARG, resources, resource_count,
                        resource_capacity)
    ELSE IF ResourceExists(cfg.name)
    THEN ResourcesAfter(ESP_ERR_INVALID_STATE, resources, resource_count,
                        resource_capacity)
    ELSE LET e == expand_resource_array(alloc.grow)
             entry == NewResource(cfg, alloc)
         IN  IF e.ret # ESP_OK
             THEN ResourcesAfter(e.ret, resources, resource_count,
                                 resource_capacity)
             ELSE IF entry.uri_template = NULL \/ entry.name = NULL
             THEN ResourcesAfter(ESP_ERR_NO_MEM, resources, resource_count,
                                 e.capacity)
             ELSE ResourcesAfter(ESP_OK, Append(resources, entry),
                                 resource_count + 1, e.capacity)

(* A variant of esp_mcp_server_unregister_tool that looks the name up, as
   the header documents; under it C6_UnregisterNotSupported fails. *)
esp_mcp_server_unregister_tool_by_lookup(handle, tool_name) ==
    IF ~handle \/ tool_name = NULL
    THEN ESP_ERR_INVALID_ARG
    ELSE IF ToolExists(tool_name)
    THEN ESP_OK
    ELSE "ESP_ERR_NOT_FOUND"

esp_mcp_server_unregister_tool(handle, tool_name) ==
    IF ~handle \/ tool_name = NULL
    THEN ESP_ERR_INVALID_ARG
    ELSE ESP_ERR_NOT_SUPPORTED

esp_mcp_server_unregister_resource(handle, resource_name) ==
    IF ~handle \/ resource_name = NULL
    THEN ESP_ERR_INVALID_ARG
    ELSE ESP_ERR_NOT_SUPPORTED

(* A variant of esp_mcp_server_get_stats that reports the capacities; under
   it C4_AppendOnly fails. *)
esp_mcp_server_get_stats_of_capacity(handle) ==
    IF ~handle
    THEN [ret |-> ESP_ERR_INVALID_ARG]
    ELSE [ret |-> ESP_OK,
          active_sessions |-> active_sessions,
          total_tools |-> tool_capacity % 65536,
          total_resources |-> resource_capacity % 65536]

(* esp_mcp_server_get_stats with the three output pointers given: the
   counts are stored through uint16_t pointers. *)
esp_mcp_server_get_stats(handle) ==
    IF ~handle
    THEN [ret |-> ESP_ERR_INVALID_ARG]
    ELSE [ret |-> ESP_OK,
          active_sessions |-> active_sessions,
          total_tools |-> tool_count % 65536,
          total_resources |-> resource_count % 65536]

(* The fields of the context the handle points to. *)
CurrentContext ==
    [tools |-> tools, tool_count |-> tool_count,
     tool_capacity |-> tool_capacity, resources |-> resources,
     resource_count |-> resource_count,
     resource_capacity |-> resource_capacity,
     active_sessions |-> active_sessions, http_server |-> http_server]

(* The context esp_mcp_server_start allocates: zeroed by calloc, with the
   two tables at their initial capacity and the HTTP server running. *)
StartedContext ==
    [tools |-> <<>>, tool_count |-> 0,
     tool_capacity |-> InitialToolCapacity, resources |-> <<>>,
     resource_count |-> 0, resource_capacity |-> InitialResourceCapacity,
     active_sessions |-> 0, http_server |-> TRUE]

(* esp_mcp_server_start: config is NULL or the port and max_sessions of
   the configuration, server_handle says whether the output pointer is
   given, alloc whether the context, the two tables and the HTTP server
   can be had.  On success *server_handle is a new context. *)
esp_mcp_server_start(config, server_handle, alloc) ==
    IF config = NULL \/ ~server_handle
    THEN [ret |-> ESP_ERR_INVALID_ARG, ctx |-> CurrentContext]
    ELSE IF config.port = 0 \/ config.max_sessions = 0
    THEN [ret |-> ESP_ERR_INVALID_ARG, ctx |-> CurrentContext]
    ELSE IF ~alloc.ctx \/ ~alloc.tools \/ ~alloc.resources
    THEN [ret |-> ESP_ERR_NO_MEM, ctx |-> CurrentContext]
    ELSE IF ~alloc.httpd
    THEN [ret |-> ESP_FAIL, ctx |-> CurrentContext]
    ELSE [ret |-> ESP_OK, ctx |-> StartedContext]

(* What a read through the handle finds where the context was, once
   esp_mcp_server_stop has freed it: the fields as they were, or what the
   storage holds after it was handed out again, for which an empty
   registry stands. *)
FreedReads == {"kept", "reused"}

(* esp_mcp_server_stop: the HTTP server is stopped, every string, schema
   and table of the registry is freed, and so is the context itself. *)
esp_mcp_server_stop(server_handle, freed) ==
    IF ~server_handle
    THEN [ret |-> ESP_ERR_INVALID_ARG, ctx |-> CurrentContext]
    ELSE [ret |-> ESP_OK,
          ctx |-> IF freed = "kept"
                  THEN [CurrentContext EXCEPT !.http_server = FALSE]
                  ELSE [StartedContext EXCEPT !.http_server = FALSE]]

-----------------------------------------------------------------------------
(* uri_template.c *)

MAX_SEGMENTS == 16
PARAM_NAME_SIZE == 64

(* A variant of strtok that yields the empty pieces before a delimiter
   as tokens; under it C35_EmptySegmentsIgnored fails. *)
RECURSIVE strtok_keeping_empty(_, _)
strtok_keeping_empty(s, i) ==
    LET delimiters == {j \in i..Len(s) : s[j] = "/"}
        final == IF delimiters = {}
                 THEN Len(s)
                 ELSE (CHOOSE j \in delimiters :
                           \A m \in delimiters : j <= m) - 1
    IN  IF i > Len(s)
        THEN <<>>
        ELSE <<SubSeq(s, i, final)>> \o strtok_keeping_empty(s, final + 2)

(* The tokens the calls of strtok(.., "/") yield from position i of s on:
   each call skips the delimiters, returns the characters up to the next
   delimiter or the end, and resumes behind that delimiter. *)
RECURSIVE strtok(_, _)
strtok(s, i) ==
    LET others == {j \in i..Len(s) : s[j] # "/"}
        first == CHOOSE j \in others : \A m \in others : j <= m
        delimiters == {j \in first..Len(s) : s[j] = "/"}
        final == IF delimiters = {}
                 THEN Len(s)
                 ELSE (CHOOSE j \in delimiters :
                           \A m \in delimiters : j <= m) - 1
    IN  IF others = {}
        THEN <<>>
        ELSE <<SubSeq(s, first, final)>> \o strtok(s, final + 2)

(* split_uri_segments: at most max_segments tokens are stored. *)
split_uri_segments(uri, max_segments) ==
    LET all == strtok(uri, 1)
    IN  IF max_segments <= 0
        THEN <<>>
        ELSE IF Len(all) <= max_segments
        THEN all
        ELSE SubSeq(all, 1, max_segments)

(* extract_param_name: whether the segment is a placeholder, and its name. *)
extract_param_name(segment, param_name_len) ==
    LET len == Len(segment)
    IN  IF len < 3 \/ segment[1] # "{" \/ segment[len] # "}"
        THEN [ok |-> FALSE, name |-> <<>>]
        ELSE IF len - 2 >= param_name_len
        THEN [ok |-> FALSE, name |-> <<>>]
        ELSE [ok |-> TRUE, name |-> SubSeq(segment, 2, len - 1)]

(* The members cJSON_AddStringToObject adds to param_obj while segments
   1..n are walked, in order. *)
RECURSIVE ExtractedParams(_, _, _)
ExtractedParams(template_segments, actual_segments, n) ==
    IF n = 0
    THEN <<>>
    ELSE LET p == extract_param_name(template_segments[n], PARAM_NAME_SIZE)
             before == ExtractedParams(template_segments, actual_segments, n - 1)
         IN  IF p.ok
             THEN Append(before, [name |-> p.name, value |-> actual_segments[n]])
             ELSE before

(* esp_mcp_uri_match_template: the return value and *params (the members
   of the parameter object, or Absent). *)
esp_mcp_uri_match_template(template_uri, actual_uri) ==
    LET template_segments == split_uri_segments(template_uri, MAX_SEGMENTS)
        actual_segments == split_uri_segments(actual_uri, MAX_SEGMENTS)
        template_count == Len(template_segments)
        actual_count == Len(actual_segments)
        SegmentOk(i) ==
            \/ extract_param_name(template_segments[i], PARAM_NAME_SIZE).ok
            \/ template_segments[i] = actual_segments[i]
    IN  IF template_count # actual_count \/ template_count = 0
        THEN [match |-> FALSE, params |-> Absent]
        ELSE IF \A i \in 1..template_count : SegmentOk(i)
        THEN [match |-> TRUE,
              params |-> ExtractedParams(template_segments, actual_segments,
                                         template_count)]
        ELSE [match |-> FALSE, params |-> Absent]

-----------------------------------------------------------------------------
(* json_rpc.c *)

Unparseable == [t |-> "unparseable"]

JSONRPC_REQUEST == "JSONRPC_REQUEST"
JSONRPC_RESPONSE == "JSONRPC_RESPONSE"
JSONRPC_NOTIFICATION == "JSONRPC_NOTIFICATION"
JSONRPC_ERROR == "JSONRPC_ERROR"

ParseFailure == [ok |-> FALSE]

(* A variant of ValidVersion that accepts every string; under it
   C15_BadVersionRejected fails. *)
ValidVersion_any_string(jsonrpc) ==
    jsonrpc # Absent /\ cJSON_IsString(jsonrpc)

(* The version test of jsonrpc_parse_message. *)
ValidVersion(jsonrpc) ==
    jsonrpc # Absent /\ cJSON_IsString(jsonrpc) /\ jsonrpc.s = S_2_0

(* A variant of MethodMessageType that takes a null id for no id; under
   it C14_Classification fails. *)
MethodMessageType_null_is_no_id(id) ==
    IF id # Absent /\ id # JNull THEN JSONRPC_REQUEST ELSE JSONRPC_NOTIFICATION

(* The type jsonrpc_parse_message gives a message with a method. *)
MethodMessageType(id) ==
    IF id # Absent THEN JSONRPC_REQUEST ELSE JSONRPC_NOTIFICATION

(* jsonrpc_parse_message on the document json (Unparseable when cJSON_Parse
   fails): the return value and the fields of msg. *)
jsonrpc_parse_message(json) ==
    LET jsonrpc == cJSON_GetObjectItem(json, "jsonrpc")
        id == cJSON_GetObjectItem(json, "id")
        method == cJSON_GetObjectItem(json, "method")
        result == cJSON_GetObjectItem(json, "result")
        error == cJSON_GetObjectItem(json, "error")
        params == cJSON_GetObjectItem(json, "params")
    IN  IF json = Unparseable
        THEN ParseFailure
        ELSE IF ~ValidVersion(jsonrpc)
        THEN ParseFailure
        ELSE IF method # Absent /\ cJSON_IsString(method)
        THEN [ok |-> TRUE, jsonrpc |-> jsonrpc.s,
              type |-> MethodMessageType(id),
              id |-> id, method |-> Own(method.s), params |-> params,
              result |-> Absent, error |-> Absent]
        ELSE IF result # Absent
        THEN [ok |-> TRUE, jsonrpc |-> jsonrpc.s,
              type |-> JSONRPC_RESPONSE, id |-> id,
              method |-> NULL, params |-> Absent,
              result |-> result, error |-> Absent]
        ELSE IF error # Absent
        THEN [ok |-> TRUE, jsonrpc |-> jsonrpc.s,
              type |-> JSONRPC_ERROR, id |-> id,
              method |-> NULL, params |-> Absent,
              result |-> Absent, error |-> error]
        ELSE ParseFailure

(* jsonrpc_validate_message on the fields jsonrpc_parse_message has set. *)
jsonrpc_validate_message(msg) ==
    IF msg.jsonrpc # S_2_0
    THEN FALSE
    ELSE CASE msg.type = JSONRPC_REQUEST ->
                  msg.method # NULL /\ msg.id # Absent
           [] msg.type = JSONRPC_NOTIFICATION ->
                  msg.method # NULL /\ msg.id = Absent
           [] msg.type = JSONRPC_RESPONSE ->
                  msg.result # Absent /\ msg.id # Absent
           [] msg.type = JSONRPC_ERROR ->
                  msg.error # Absent /\ msg.id # Absent
           [] OTHER -> FALSE

(* A variant of jsonrpc_create_response that leaves out the id member when
   there is no id, as jsonrpc_create_request does; under it C16_RoundTrip
   fails. *)
jsonrpc_create_response_without_null_id(id, result) ==
    ObjectOf({<<"jsonrpc", JStr(S_2_0)>>,
              <<"result", IF result # Absent THEN result ELSE JNull>>,
              <<"id", id>>})

(* jsonrpc_create_response: the document that is printed. *)
jsonrpc_create_response(id, result) ==
    ObjectOf({<<"jsonrpc", JStr(S_2_0)>>,
              <<"result", IF result # Absent THEN result ELSE JNull>>,
              <<"id", IF id # Absent THEN id ELSE JNull>>})

(* jsonrpc_create_error; message is a char* and data a cJSON*. *)
jsonrpc_create_error(id, code, message, data) ==
    ObjectOf({<<"jsonrpc", JStr(S_2_0)>>,
              <<"error",
                ObjectOf({<<"code", JNum(code)>>,
                          <<"message", JStr(IF message # NULL THEN Deref(message)
                                            ELSE S_Unknown_error)>>,
                          <<"data", data>>})>>,
              <<"id", IF id # Absent THEN id ELSE JNull>>})

-----------------------------------------------------------------------------
(* esp_mcp_server.c: the protocol handlers.  A handler yields its result
   (Absent for NULL) and the log of the callbacks it invoked.  rets holds
   what the application's callbacks return when called: rets.tool for a tool
   handler (Absent for NULL), rets.resource[i] for the handler of resource
   slot i (NULL or an owned string). *)

SystemInfoText == <<"E", "S", "P", "3", "2", " ", "i", "n", "f", "o">>
SystemStatusText == <<"E", "S", "P", "3", "2", " ", "s", "t", "a", "t", "u", "s">>

Handled(result, invoked) == [result |-> result, invoked |-> invoked]

Invocation(kind, fn, arg, user_data, ret) ==
    [kind |-> kind, fn |-> fn, arg |-> arg, user_data |-> user_data, ret |-> ret]

builtin_system_info_tool ==
    ObjectOf({<<"content",
                JArr(<<ObjectOf({<<"type", JStr(S_text)>>,
                                 <<"text", JStr(SystemInfoText)>>})>>)>>})

builtin_system_status_resource == Own(SystemStatusText)

handle_initialize(params, id, rets) ==
    Handled(
        ObjectOf({<<"capabilities",
                    ObjectOf({<<"tools",
                                ObjectOf({<<"listChanged", JBool(FALSE)>>})>>,
                              <<"resources",
                                ObjectOf({<<"subscribe", JBool(FALSE)>>,
                                          <<"listChanged", JBool(FALSE)>>})>>})>>,
                  <<"serverInfo",
                    ObjectOf({<<"name", JStr(S_server_name)>>,
                              <<"version", JStr(S_server_version)>>})>>,
                  <<"protocolVersion", JStr(S_protocol_version)>>}),
        <<>>)

handle_initialized(params, id, rets) == Handled(Absent, <<>>)

(* A variant of handle_ping that answers only the ping that follows an
   initialize request; under it C25_PureFunction fails. *)
handle_ping_after_initialize(params, id, rets) ==
    IF last.op = "dispatch" /\ cJSON_GetObjectItem(last.arg, "method") = JStr(S_initialize)
    THEN Handled(ObjectOf({<<"status", JStr(S_pong)>>}), <<>>)
    ELSE Handled(Absent, <<>>)

handle_ping(params, id, rets) ==
    Handled(ObjectOf({<<"status", JStr(S_pong)>>}), <<>>)

(* The element of the tools array built for slot i. *)
ToolListEntry(i) ==
    ObjectOf({<<"name", JStr(Deref(tools[i].name))>>,
              <<"title", IF tools[i].title # NULL
                         THEN JStr(Deref(tools[i].title)) ELSE Absent>>,
              <<"description", IF tools[i].description # NULL
                               THEN JStr(Deref(tools[i].description))
                               ELSE Absent>>,
              <<"inputSchema", IF tools[i].input_schema # NULL
                               THEN JDeref(tools[i].input_schema)
                               ELSE Absent>>})

BuiltinToolListEntry ==
    ObjectOf({<<"name", JStr(S_get_system_info)>>,
              <<"title", JStr(S_System_Information)>>,
              <<"description", JStr(S_Get_ESP32_system_information)>>,
              <<"inputSchema",
                ObjectOf({<<"type", JStr(S_object)>>,
                          <<"properties", ObjectOf({})>>})>>})

(* A variant of handle_list_tools that lists the built-in tool after the
   registered ones; under it C12_ListsNeverEmpty fails. *)
handle_list_tools_with_builtin(params, id, rets) ==
    LET registered == [i \in 1..tool_count |-> ToolListEntry(i)]
    IN  Handled(ObjectOf({<<"tools",
                            JArr(Append(registered, BuiltinToolListEntry))>>}),
                <<>>)

(* handle_list_tools: the registered tools in slot order, the built-in
   tool when the array is empty. *)
handle_list_tools(params, id, rets) ==
    LET registered == [i \in 1..tool_count |-> ToolListEntry(i)]
        tools_array == IF Len(registered) = 0
                       THEN <<BuiltinToolListEntry>>
                       ELSE registered
    IN  Handled(ObjectOf({<<"tools", JArr(tools_array)>>}), <<>>)

(* A variant of UnknownToolResult that carries the _jsonrpc_error marker;
   under it C9_UnknownToolAndResource fails. *)
UnknownToolResult_as_marker ==
    ObjectOf({<<"_jsonrpc_error", JStr(<<"m", "e", "t", "h", "o", "d">>)>>,
              <<"message", JStr(S_Unknown_tool)>>})

(* The result of handle_call_tool for a name it does not know. *)
UnknownToolResult ==
    ObjectOf({<<"error", JStr(S_Unknown_tool)>>})

(* The result of handle_read_resource for a URI nothing answered. *)
ResourceNotFoundResult ==
    ObjectOf({<<"error", JStr(S_Resource_not_found)>>})

(* The slots whose name equals the requested name and whose handler is set,
   which the loop of handle_call_tool visits in increasing order. *)
(* A variant of CallableTools under which no registered tool answers to
   the name of the built-in; under it C30_Resolution fails. *)
CallableTools_builtin_first(name) ==
    {i \in 1..tool_count :
        /\ Deref(tools[i].name) = name
        /\ tools[i].handler # NULL_FN
        /\ name # S_get_system_info}

CallableTools(name) ==
    {i \in 1..tool_count :
        Deref(tools[i].name) = name /\ tools[i].handler # NULL_FN}

handle_call_tool(params, id, rets) ==
    LET name == cJSON_GetObjectItem(params, "name")
        arguments == cJSON_GetObjectItem(params, "arguments")
    IN  IF params = Absent
        THEN Handled(Absent, <<>>)
        ELSE IF name = Absent \/ ~cJSON_IsString(name)
        THEN Handled(Absent, <<>>)
        ELSE IF CallableTools(name.s) # {}
        THEN LET i == CHOOSE j \in CallableTools(name.s) :
                          \A k \in CallableTools(name.s) : j <= k
             IN  Handled(rets.tool,
                         <<Invocation("tool", tools[i].handler, arguments,
                                      tools[i].user_data, rets.tool)>>)
        ELSE IF name.s = S_get_system_info
        THEN Handled(builtin_system_info_tool,
                     <<Invocation("builtin_tool", "builtin_system_info_tool",
                                  arguments, 0, builtin_system_info_tool)>>)
        ELSE Handled(UnknownToolResult, <<>>)

(* The element of the resources array built for slot i. *)
ResourceListEntry(i) ==
    ObjectOf({<<"uri", JStr(Deref(resources[i].uri_template))>>,
              <<"name", JStr(Deref(resources[i].name))>>,
              <<"title", IF resources[i].title # NULL
                         THEN JStr(Deref(resources[i].title)) ELSE Absent>>,
              <<"description", IF resources[i].description # NULL
                               THEN JStr(Deref(resources[i].description))
                               ELSE Absent>>,
              <<"mimeType", IF resources[i].mime_type # NULL
                            THEN JStr(Deref(resources[i].mime_type))
                            ELSE Absent>>})

BuiltinResourceListEntry ==
    ObjectOf({<<"uri", JStr(S_system_status_uri)>>,
              <<"name", JStr(S_system_status)>>,
              <<"title", JStr(S_System_Status)>>,
              <<"description", JStr(S_Current_ESP32_system_status)>>,
              <<"mimeType", JStr(S_text_plain)>>})

(* A variant of handle_list_resources that lists the built-in resource
   after the registered ones; under it C32_Amended fails. *)
handle_list_resources_with_builtin(params, id, rets) ==
    LET registered == [i \in 1..resource_count |-> ResourceListEntry(i)]
    IN  Handled(ObjectOf({<<"resources",
                            JArr(Append(registered,
                                        BuiltinResourceListEntry))>>}),
                <<>>)

(* handle_list_resources: the registered resources in slot order, the
   built-in resource when the array is empty. *)
handle_list_resources(params, id, rets) ==
    LET registered == [i \in 1..resource_count |-> ResourceListEntry(i)]
        resources_array == IF Len(registered) = 0
                           THEN <<BuiltinResourceListEntry>>
                           ELSE registered
    IN  Handled(ObjectOf({<<"resources", JArr(resources_array)>>}), <<>>)

(* The result object of a successful read. *)
ResourceContents(uri, mime_type, content_text) ==
    ObjectOf({<<"contents",
                JArr(<<ObjectOf({<<"uri", JStr(uri)>>,
                                 <<"mimeType", JStr(mime_type)>>,
                                 <<"text", JStr(content_text)>>})>>)>>})

RECURSIVE ReadRegistered_first_match_only(_, _, _)
RECURSIVE ReadRegistered(_, _, _)

(* A variant of ReadRegistered that leaves the loop after the first
   matching slot whatever its handler returns; under it C13_Amended
   fails. *)
ReadRegistered_first_match_only(i, uri, rets) ==
    IF i > resource_count
    THEN Handled(Absent, <<>>)
    ELSE IF /\ esp_mcp_uri_match_template(Deref(resources[i].uri_template),
                                          uri).match
            /\ resources[i].handler # NULL_FN
    THEN LET content_text == rets.resource[i]
             call == Invocation("resource", resources[i].handler, JStr(uri),
                                resources[i].user_data, content_text)
         IN  IF content_text # NULL
             THEN Handled(
                      ResourceContents(uri,
                          IF resources[i].mime_type # NULL
                          THEN Deref(resources[i].mime_type)
                          ELSE S_text_plain,
                          Deref(content_text)),
                      <<call>>)
             ELSE Handled(Absent, <<call>>)
    ELSE ReadRegistered_first_match_only(i + 1, uri, rets)

(* The loop of handle_read_resource over slots i..resource_count: the
   result it returns (Absent when it falls through) and the handlers it
   called. *)
ReadRegistered(i, uri, rets) ==
    IF i > resource_count
    THEN Handled(Absent, <<>>)
    ELSE IF /\ esp_mcp_uri_match_template(Deref(resources[i].uri_template),
                                          uri).match
            /\ resources[i].handler # NULL_FN
    THEN LET content_text == rets.resource[i]
             call == Invocation("resource", resources[i].handler, JStr(uri),
                                resources[i].user_data, content_text)
         IN  IF content_text # NULL
             THEN Handled(
                      ResourceContents(uri,
                          IF resources[i].mime_type # NULL
                          THEN Deref(resources[i].mime_type)
                          ELSE S_text_plain,
                          Deref(content_text)),
                      <<call>>)
             ELSE LET rest == ReadRegistered(i + 1, uri, rets)
                  IN  Handled(rest.result, <<call>> \o rest.invoked)
    ELSE ReadRegistered(i + 1, uri, rets)

handle_read_resource(params, id, rets) ==
    LET uri == cJSON_GetObjectItem(params, "uri")
    IN  IF params = Absent
        THEN Handled(Absent, <<>>)
        ELSE IF uri = Absent \/ ~cJSON_IsString(uri)
        THEN Handled(Absent, <<>>)
        ELSE LET reg == ReadRegistered(1, uri.s, rets)
             IN  IF reg.result # Absent
                 THEN reg
                 ELSE IF uri.s = S_system_status_uri
                 THEN Handled(
                          ResourceContents(uri.s, S_text_plain,
                              Deref(builtin_system_status_resource)),
                          reg.invoked \o
                          <<Invocation("builtin_resource",
                                       "builtin_system_status_resource",
                                       JStr(uri.s), 0,
                                       builtin_system_status_resource)>>)
                 ELSE Handled(ResourceNotFoundResult, reg.invoked)

(* The JSON-RPC method table. *)
mcp_methods ==
    <<[method |-> S_initialize, handler |-> "handle_initialize"],
      [method |-> S_initialized, handler |-> "handle_initialized"],
      [method |-> S_ping, handler |-> "handle_ping"],
      [method |-> S_tools_list, handler |-> "handle_list_tools"],
      [method |-> S_tools_call, handler |-> "handle_call_tool"],
      [method |-> S_resources_list, handler |-> "handle_list_resources"],
      [method |-> S_resources_read, handler |-> "handle_read_resource"]>>

(* The call through the function pointer found in the method table. *)
CallMethodHandler(handler, params, id, rets) ==
    CASE handler = "handle_initialize" -> handle_initialize(params, id, rets)
      [] handler = "handle_initialized" -> handle_initialized(params, id, rets)
      [] handler = "handle_ping" -> handle_ping(params, id, rets)
      [] handler = "handle_list_tools" -> handle_list_tools(params, id, rets)
      [] handler = "handle_call_tool" -> handle_call_tool(params, id, rets)
      [] handler = "handle_list_resources" ->
             handle_list_resources(params, id, rets)
      [] handler = "handle_read_resource" ->
             handle_read_resource(params, id, rets)

(* A variant of FindMethodHandler that falls back to the first table entry;
   under it C8_MethodNotFound fails. *)
FindMethodHandler_with_default(methods, method) ==
    LET hits == {i \in 1..Len(methods) : methods[i].method = method}
    IN  IF hits = {}
        THEN methods[1].handler
        ELSE methods[CHOOSE i \in hits : \A j \in hits : i <= j].handler

(* The handler jsonrpc_process_message finds for a method name: that of the
   first table entry whose name equals it, NULL_FN when there is none. *)
FindMethodHandler(methods, method) ==
    LET hits == {i \in 1..Len(methods) : methods[i].method = method}
    IN  IF hits = {}
        THEN NULL_FN
        ELSE methods[CHOOSE i \in hits : \A j \in hits : i <= j].handler

Processed(response, handler, invoked) ==
    [response |-> response, handler |-> handler, invoked |-> invoked]

(* A variant of NullResultResponse that answers with a result-level error
   object; under it C10_Amended fails. *)
NullResultResponse_as_result(id) ==
    jsonrpc_create_response(id, ObjectOf({<<"error", JStr(S_Internal_error)>>}))

(* The response to a request whose handler returned NULL. *)
NullResultResponse(id) ==
    jsonrpc_create_error(id, JSONRPC_INTERNAL_ERROR, Lit(S_Internal_error),
                         Absent)

(* A variant of ResultResponse that renders every marker as invalid
   params; under it C17_ErrorCodes fails. *)
ResultResponse_marker_always_invalid_params(id, result) ==
    LET error_type == cJSON_GetObjectItem(result, "_jsonrpc_error")
        message == cJSON_GetObjectItem(result, "message")
        data == cJSON_GetObjectItem(result, "data")
    IN  IF result = Absent
        THEN NullResultResponse(id)
        ELSE IF error_type # Absent /\ cJSON_IsString(error_type)
        THEN jsonrpc_create_error(id, JSONRPC_INVALID_PARAMS,
                 IF message # Absent /\ cJSON_IsString(message)
                 THEN Lit(message.s)
                 ELSE Lit(S_Invalid_params),
                 data)
        ELSE jsonrpc_create_response(id, result)

(* A variant of ResultResponse that knows no marker; under it C33_Amended
   fails. *)
ResultResponse_without_marker(id, result) ==
    IF result = Absent
    THEN NullResultResponse(id)
    ELSE jsonrpc_create_response(id, result)

(* The response to a request whose handler returned result. *)
ResultResponse(id, result) ==
    LET error_type == cJSON_GetObjectItem(result, "_jsonrpc_error")
        message == cJSON_GetObjectItem(result, "message")
        data == cJSON_GetObjectItem(result, "data")
        invalid == error_type.s = S_invalid_params
    IN  IF result = Absent
        THEN NullResultResponse(id)
        ELSE IF error_type # Absent /\ cJSON_IsString(error_type)
        THEN jsonrpc_create_error(id,
                 IF invalid THEN JSONRPC_INVALID_PARAMS
                 ELSE JSONRPC_INTERNAL_ERROR,
                 IF message # Absent /\ cJSON_IsString(message)
                 THEN Lit(message.s)
                 ELSE IF invalid THEN Lit(S_Invalid_params)
                 ELSE Lit(S_Internal_error),
                 data)
        ELSE jsonrpc_create_response(id, result)

(* A variant of HandlerResponse that answers notifications too; under it
   C7_NotificationNoReply fails. *)
HandlerResponse_for_any_type(msg, result) ==
    ResultResponse(msg.id, result)

(* What jsonrpc_process_message returns after the handler has run: a
   response for a request, NULL for a notification. *)
HandlerResponse(msg, result) ==
    IF msg.type = JSONRPC_REQUEST
    THEN ResultResponse(msg.id, result)
    ELSE Absent

(* jsonrpc_process_message: the response (Absent for NULL), the method
   handler that was called (NULL_FN for none) and the callbacks invoked. *)
jsonrpc_process_message(json, methods, rets) ==
    LET msg == jsonrpc_parse_message(json)
    IN  IF ~msg.ok
        THEN Processed(jsonrpc_create_error(Absent, JSONRPC_PARSE_ERROR,
                                            Lit(S_Parse_error), Absent),
                       NULL_FN, <<>>)
        ELSE IF msg.type # JSONRPC_REQUEST /\ msg.type # JSONRPC_NOTIFICATION
        THEN \* jsonrpc_free_message has set msg.id to NULL before it is used
             Processed(jsonrpc_create_error(Absent, JSONRPC_INVALID_REQUEST,
                                            Lit(S_Invalid_request), Absent),
                       NULL_FN, <<>>)
        ELSE LET handler == FindMethodHandler(methods,
                                                  Deref(msg.method))
             IN  IF handler = NULL_FN
                 THEN Processed(
                          IF msg.type = JSONRPC_REQUEST
                          THEN jsonrpc_create_error(msg.id,
                                   JSONRPC_METHOD_NOT_FOUND,
                                   Lit(S_Method_not_found), Absent)
                          ELSE Absent,
                          NULL_FN, <<>>)
                 ELSE LET h == CallMethodHandler(handler, msg.params, msg.id,
                                                 rets)
                      IN  Processed(HandlerResponse(msg, h.result), handler,
                                    h.invoked)

jsonrpc_process_request(json, methods, rets) ==
    jsonrpc_process_message(json, methods, rets)

-----------------------------------------------------------------------------
(* cJSON_Print and cJSON_Parse, as json_rpc.c uses them.  A text is the
   sequence of its lexical tokens: the punctuation marks, the literals
   null, true and false, the numbers, the strings, and the member names.
   White space is not modelled. *)

Punct(c) == [k |-> "punct", c |-> c]
IsPunct(toks, i, c) == i <= Len(toks) /\ toks[i].k = "punct" /\ toks[i].c = c

RECURSIVE cJSON_Print(_)
RECURSIVE PrintElements(_, _)
RECURSIVE PrintMembers(_, _)

PrintElements(a, i) ==
    IF i > Len(a)
    THEN <<>>
    ELSE cJSON_Print(a[i])
         \o (IF i < Len(a) THEN <<Punct(",")>> ELSE <<>>)
         \o PrintElements(a, i + 1)

PrintMembers(m, names) ==
    IF names = {}
    THEN <<>>
    ELSE LET name == CHOOSE k \in names : TRUE
         IN  <<[k |-> "key", name |-> name], Punct(":")>>
             \o cJSON_Print(m[name])
             \o (IF names # {name} THEN <<Punct(",")>> ELSE <<>>)
             \o PrintMembers(m, names \ {name})

(* The text of a tree; the empty text stands for the NULL cJSON_Print
   returns for a NULL item. *)
cJSON_Print(v) ==
    CASE v.t = "null" -> <<[k |-> "null"]>>
      [] v.t = "bool" -> <<[k |-> "bool", b |-> v.b]>>
      [] v.t = "number" -> <<[k |-> "num", n |-> v.n]>>
      [] v.t = "string" -> <<[k |-> "str", s |-> v.s]>>
      [] v.t = "array" ->
             <<Punct("[")>> \o PrintElements(v.a, 1) \o <<Punct("]")>>
      [] v.t = "object" ->
             <<Punct("{")>> \o PrintMembers(v.m, DOMAIN v.m) \o <<Punct("}")>>
      [] OTHER -> <<>>

NoValue(i) == [ok |-> FALSE, v |-> Absent, next |-> i]
Value(v, next) == [ok |-> TRUE, v |-> v, next |-> next]

RECURSIVE ParseValue(_, _)
RECURSIVE ParseElements(_, _, _)
RECURSIVE ParseMembers(_, _, _)

(* The elements of an array from token i on, after those in acc. *)
ParseElements(toks, i, acc) ==
    IF acc = <<>> /\ IsPunct(toks, i, "]")
    THEN Value(JArr(<<>>), i + 1)
    ELSE LET r == ParseValue(toks, i)
         IN  IF ~r.ok
             THEN NoValue(i)
             ELSE IF IsPunct(toks, r.next, ",")
             THEN ParseElements(toks, r.next + 1, Append(acc, r.v))
             ELSE IF IsPunct(toks, r.next, "]")
             THEN Value(JArr(Append(acc, r.v)), r.next + 1)
             ELSE NoValue(i)

(* The members of an object from token i on, after those in acc; of two
   members of the same name cJSON_GetObjectItem finds the first. *)
ParseMembers(toks, i, acc) ==
    IF DOMAIN acc = {} /\ IsPunct(toks, i, "}")
    THEN Value(JObj(acc), i + 1)
    ELSE IF ~(i <= Len(toks) /\ toks[i].k = "key" /\ IsPunct(toks, i + 1, ":"))
    THEN NoValue(i)
    ELSE LET r == ParseValue(toks, i + 2)
             members == acc @@ (toks[i].name :> r.v)
         IN  IF ~r.ok
             THEN NoValue(i)
             ELSE IF IsPunct(toks, r.next, ",")
             THEN ParseMembers(toks, r.next + 1, members)
             ELSE IF IsPunct(toks, r.next, "}")
             THEN Value(JObj(members), r.next + 1)
             ELSE NoValue(i)

ParseValue(toks, i) ==
    IF i > Len(toks)
    THEN NoValue(i)
    ELSE CASE toks[i].k = "null" -> Value(JNull, i + 1)
           [] toks[i].k = "bool" -> Value(JBool(toks[i].b), i + 1)
           [] toks[i].k = "num" -> Value(JNum(toks[i].n), i + 1)
           [] toks[i].k = "str" -> Value(JStr(toks[i].s), i + 1)
           [] IsPunct(toks, i, "[") -> ParseElements(toks, i + 1, <<>>)
           [] IsPunct(toks, i, "{") ->
                  ParseMembers(toks, i + 1, [k \in {} |-> Absent])
           [] OTHER -> NoValue(i)

(* cJSON_Parse: the tree of the first value of the text, whatever follows
   it; Unparseable stands for NULL. *)
cJSON_Parse(text) ==
    LET r == ParseValue(text, 1)
    IN  IF r.ok THEN r.v ELSE Unparseable

(* jsonrpc_parse_message on a text. *)
jsonrpc_parse_text(json_str) == jsonrpc_parse_message(cJSON_Parse(json_str))

(* The string jsonrpc_create_response returns. *)
jsonrpc_create_response_text(id, result) ==
    cJSON_Print(jsonrpc_create_response(id, result))

-----------------------------------------------------------------------------
(* schema_validator.c.  A validation yields the esp_err_t returned and the
   fields of *result.  error_path is a pointer: to the literal "root", or
   into the property_path array of the validate_object call that built it
   (Frame), whose lifetime ends when that call returns. *)

SCHEMA_VALIDATION_OK == "SCHEMA_VALIDATION_OK"
SCHEMA_VALIDATION_TYPE_MISMATCH == "SCHEMA_VALIDATION_TYPE_MISMATCH"
SCHEMA_VALIDATION_MISSING_REQUIRED == "SCHEMA_VALIDATION_MISSING_REQUIRED"
SCHEMA_VALIDATION_OUT_OF_RANGE == "SCHEMA_VALIDATION_OUT_OF_RANGE"
SCHEMA_VALIDATION_INVALID_SCHEMA == "SCHEMA_VALIDATION_INVALID_SCHEMA"

ERROR_MESSAGE_SIZE == 128
PROPERTY_PATH_SIZE == 256

S_root == <<"r", "o", "o", "t">>
S_string == <<"s", "t", "r", "i", "n", "g">>
S_integer == <<"i", "n", "t", "e", "g", "e", "r">>
S_number == <<"n", "u", "m", "b", "e", "r">>
S_boolean == <<"b", "o", "o", "l", "e", "a", "n">>
S_Schema_missing_or_invalid_type == <<"S", "c", "h", "e", "m", "a", " ", "m", "i", "s", "s", "i", "n", "g", " ", "o", "r", " ", "i", "n", "v", "a", "l", "i", "d", " ", "t", "y", "p", "e">>
S_Expected_string == <<"E", "x", "p", "e", "c", "t", "e", "d", " ", "s", "t", "r", "i", "n", "g">>
S_Expected_number == <<"E", "x", "p", "e", "c", "t", "e", "d", " ", "n", "u", "m", "b", "e", "r">>
S_Expected_boolean == <<"E", "x", "p", "e", "c", "t", "e", "d", " ", "b", "o", "o", "l", "e", "a", "n">>
S_Expected_object == <<"E", "x", "p", "e", "c", "t", "e", "d", " ", "o", "b", "j", "e", "c", "t">>
S_Value_below_minimum == <<"V", "a", "l", "u", "e", " ", "b", "e", "l", "o", "w", " ", "m", "i", "n", "i", "m", "u", "m">>
S_Value_above_maximum == <<"V", "a", "l", "u", "e", " ", "a", "b", "o", "v", "e", " ", "m", "a", "x", "i", "m", "u", "m">>
S_Unsupported_type_in_schema == <<"U", "n", "s", "u", "p", "p", "o", "r", "t", "e", "d", " ", "t", "y", "p", "e", " ", "i", "n", " ", "s", "c", "h", "e", "m", "a">>
S_Missing_required_field == <<"M", "i", "s", "s", "i", "n", "g", " ", "r", "e", "q", "u", "i", "r", "e", "d", " ", "f", "i", "e", "l", "d", ":", " ">>

cJSON_IsNumber(v) == v.t = "number"
cJSON_IsBool(v) == v.t = "bool"
cJSON_IsObject(v) == v.t = "object"
cJSON_IsArray(v) == v.t = "array"

(* The characters of the member names the documents of the model use. *)
Spelled ==
    [k \in {"pin", "state", "message", "inner"} |->
        CASE k = "pin" -> <<"p", "i", "n">>
          [] k = "state" -> <<"s", "t", "a", "t", "e">>
          [] k = "message" -> <<"m", "e", "s", "s", "a", "g", "e">>
          [] k = "inner" -> <<"i", "n", "n", "e", "r">>]

(* cJSON_GetObjectItem with the member name given as a C string. *)
cJSON_GetObjectItemNamed(v, name) ==
    LET hits == IF v.t = "object"
                THEN {k \in DOMAIN v.m \cap DOMAIN Spelled : Spelled[k] = name}
                ELSE {}
    IN  IF hits = {} THEN Absent ELSE v.m[CHOOSE k \in hits : TRUE]

(* What snprintf and strncpy leave in a buffer of size bytes. *)
Truncated(s, size) == IF Len(s) < size THEN s ELSE SubSeq(s, 1, size - 1)

Frame(s) == [k |-> "frame", s |-> s]

ValidationOk ==
    [ret |-> ESP_OK, error |-> SCHEMA_VALIDATION_OK, error_message |-> <<>>,
     error_path |-> NULL]

(* A variant of set_validation_error that reports a schema without a
   usable type as a type mismatch; under it C27_Amended fails. *)
set_validation_error_as_data_fault(error, message, path) ==
    [ret |-> ESP_FAIL,
     error |-> IF error = SCHEMA_VALIDATION_INVALID_SCHEMA
               THEN SCHEMA_VALIDATION_TYPE_MISMATCH
               ELSE error,
     error_message |-> Truncated(message, ERROR_MESSAGE_SIZE),
     error_path |-> path]

set_validation_error(error, message, path) ==
    [ret |-> ESP_FAIL, error |-> error,
     error_message |-> Truncated(message, ERROR_MESSAGE_SIZE),
     error_path |-> path]

(* The first required name the data lacks, walking the required array. *)
RECURSIVE MissingRequired(_, _, _)
MissingRequired(data, required, i) ==
    IF i > Len(required.a)
    THEN NULL
    ELSE IF /\ cJSON_IsString(required.a[i])
            /\ cJSON_GetObjectItemNamed(data, required.a[i].s) = Absent
    THEN Lit(required.a[i].s)
    ELSE MissingRequired(data, required, i + 1)

RECURSIVE validate_property(_, _, _)
RECURSIVE validate_object(_, _, _)
RECURSIVE ValidateMembers_strict(_, _, _, _)
RECURSIVE ValidateMembers(_, _, _, _)

(* A variant of ValidateMembers that refuses a member no property
   declares; under it C22_Amended fails. *)
ValidateMembers_strict(data, properties, path, names) ==
    IF names = <<>>
    THEN ValidationOk
    ELSE LET property_name == Head(names)
             property_schema == cJSON_GetObjectItem(properties, property_name)
             property_path ==
                 Frame(Truncated(Deref(path) \o <<".">> \o Spelled[property_name],
                                 PROPERTY_PATH_SIZE))
             ret == validate_property(data.m[property_name], property_schema,
                                      property_path)
         IN  IF ret.ret # ESP_OK
             THEN ret
             ELSE ValidateMembers_strict(data, properties, path, Tail(names))

(* The loop of validate_object over the members of data named in names,
   in the order of names. *)
ValidateMembers(data, properties, path, names) ==
    IF names = <<>>
    THEN ValidationOk
    ELSE LET property_name == Head(names)
             property_schema == cJSON_GetObjectItem(properties, property_name)
             property_path ==
                 Frame(Truncated(Deref(path) \o <<".">> \o Spelled[property_name],
                                 PROPERTY_PATH_SIZE))
             ret == validate_property(data.m[property_name], property_schema,
                                      property_path)
         IN  IF property_schema = Absent
             THEN ValidateMembers(data, properties, path, Tail(names))
             ELSE IF ret.ret # ESP_OK
             THEN ret
             ELSE ValidateMembers(data, properties, path, Tail(names))

validate_object(data, schema, path) ==
    LET properties == cJSON_GetObjectItem(schema, "properties")
        required == cJSON_GetObjectItem(schema, "required")
        missing == IF required # Absent /\ cJSON_IsArray(required)
                   THEN MissingRequired(data, required, 1)
                   ELSE NULL
    IN  IF properties = Absent \/ ~cJSON_IsObject(properties)
        THEN ValidationOk
        ELSE IF missing # NULL
        THEN set_validation_error(SCHEMA_VALIDATION_MISSING_REQUIRED,
                                  S_Missing_required_field \o Deref(missing),
                                  path)
        ELSE ValidateMembers(data, properties, path, Keys(data))

(* The range test of validate_property on a number. *)
BelowMinimum(value, minimum) ==
    minimum # Absent /\ cJSON_IsNumber(minimum) /\ value < minimum.n

AboveMaximum(value, maximum) ==
    maximum # Absent /\ cJSON_IsNumber(maximum) /\ value > maximum.n

validate_property(data, schema, path) ==
    LET type_item == cJSON_GetObjectItem(schema, "type")
        expected_type == type_item.s
        minimum == cJSON_GetObjectItem(schema, "minimum")
        maximum == cJSON_GetObjectItem(schema, "maximum")
    IN  IF type_item = Absent \/ ~cJSON_IsString(type_item)
        THEN set_validation_error(SCHEMA_VALIDATION_INVALID_SCHEMA,
                                  S_Schema_missing_or_invalid_type, path)
        ELSE IF expected_type = S_string
        THEN IF ~cJSON_IsString(data)
             THEN set_validation_error(SCHEMA_VALIDATION_TYPE_MISMATCH,
                                       S_Expected_string, path)
             ELSE ValidationOk
        ELSE IF expected_type = S_integer \/ expected_type = S_number
        THEN IF ~cJSON_IsNumber(data)
             THEN set_validation_error(SCHEMA_VALIDATION_TYPE_MISMATCH,
                                       S_Expected_number, path)
             ELSE IF BelowMinimum(data.n, minimum)
             THEN set_validation_error(SCHEMA_VALIDATION_OUT_OF_RANGE,
                                       S_Value_below_minimum, path)
             ELSE IF AboveMaximum(data.n, maximum)
             THEN set_validation_error(SCHEMA_VALIDATION_OUT_OF_RANGE,
                                       S_Value_above_maximum, path)
             ELSE ValidationOk
        ELSE IF expected_type = S_boolean
        THEN IF ~cJSON_IsBool(data)
             THEN set_validation_error(SCHEMA_VALIDATION_TYPE_MISMATCH,
                                       S_Expected_boolean, path)
             ELSE ValidationOk
        ELSE IF expected_type = S_object
        THEN IF ~cJSON_IsObject(data)
             THEN set_validation_error(SCHEMA_VALIDATION_TYPE_MISMATCH,
                                       S_Expected_object, path)
             ELSE validate_object(data, schema, path)
        ELSE set_validation_error(SCHEMA_VALIDATION_INVALID_SCHEMA,
                                  S_Unsupported_type_in_schema, path)

(* schema_validate with a result pointer given. *)
schema_validate(data, schema) ==
    IF data = Absent \/ schema = Absent
    THEN [ret |-> ESP_ERR_INVALID_ARG, error |-> SCHEMA_VALIDATION_OK,
          error_message |-> <<>>, error_path |-> NULL]
    ELSE validate_property(data, schema, Lit(S_root))

schema_validate_tool_arguments(arguments, input_schema) ==
    IF input_schema = Absent
    THEN ValidationOk
    ELSE IF arguments = Absent
    THEN schema_validate(ObjectOf({}), input_schema)
    ELSE schema_validate(arguments, input_schema)

(* schema_create_object: properties is a cJSON object or NULL (Absent),
   required_fields points to the names of a NULL terminated array, or is
   NULL. *)
schema_create_object(properties, required_fields) ==
    ObjectOf({<<"type", JStr(S_object)>>,
              <<"properties", properties>>,
              <<"required",
                IF required_fields = NULL
                THEN Absent
                ELSE JArr([i \in 1..Len(Deref(required_fields)) |->
                              JStr(Deref(required_fields)[i])])>>})

(* The schema creation helpers.  The parameter required of the three
   property helpers is not used by them. *)
INT32_MAX == 2147483647
INT32_MIN == -INT32_MAX - 1

schema_create_string(description, required) ==
    ObjectOf({<<"type", JStr(S_string)>>,
              <<"description", IF description # NULL
                               THEN JStr(Deref(description)) ELSE Absent>>})

schema_create_integer(description, min_value, max_value, required) ==
    ObjectOf({<<"type", JStr(S_integer)>>,
              <<"description", IF description # NULL
                               THEN JStr(Deref(description)) ELSE Absent>>,
              <<"minimum", IF min_value # INT32_MIN
                           THEN JNum(min_value) ELSE Absent>>,
              <<"maximum", IF max_value # INT32_MAX
                           THEN JNum(max_value) ELSE Absent>>})

schema_create_boolean(description, required) ==
    ObjectOf({<<"type", JStr(S_boolean)>>,
              <<"description", IF description # NULL
                               THEN JStr(Deref(description)) ELSE Absent>>})

(* The schema builder.  cJSON_AddItemToObject appends the member; when the
   object has a member of that name already, cJSON_GetObjectItem goes on
   finding the earlier one, which is the one the object of the model
   keeps. *)
NamedKey(name) == CHOOSE k \in DOMAIN Spelled : Spelled[k] = name

cJSON_AddItemToObject(object, key, item) ==
    IF key \in DOMAIN object.m
    THEN object
    ELSE JObj([k \in DOMAIN object.m \cup {key} |->
                  IF k = key THEN item ELSE object.m[k]])

cJSON_AddItemToArray(array, item) == JArr(Append(array.a, item))

(* A variant of schema_builder_create_object that makes no required
   array; under it C37_BuilderSchemas fails. *)
schema_builder_create_object_without_required ==
    ObjectOf({<<"type", JStr(S_object)>>,
              <<"properties", ObjectOf({})>>})

schema_builder_create_object ==
    ObjectOf({<<"type", JStr(S_object)>>,
              <<"properties", ObjectOf({})>>,
              <<"required", JArr(<<>>)>>})

(* What the three schema_builder_add functions do once the property schema
   is made: the return value and the object schema_obj points to
   afterwards. *)
SchemaBuilderAdd(schema_obj, property_name, property_schema, required) ==
    IF schema_obj = NULL \/ property_name = NULL
    THEN [ret |-> ESP_ERR_INVALID_ARG,
          schema |-> IF schema_obj = NULL THEN Absent ELSE JDeref(schema_obj)]
    ELSE LET schema == JDeref(schema_obj)
             properties == cJSON_GetObjectItem(schema, "properties")
             required_array == cJSON_GetObjectItem(schema, "required")
             added == [schema EXCEPT !.m["properties"] =
                          cJSON_AddItemToObject(properties,
                              NamedKey(Deref(property_name)),
                              property_schema)]
         IN  IF properties = Absent
             THEN [ret |-> ESP_ERR_INVALID_STATE, schema |-> schema]
             ELSE IF /\ required
                     /\ required_array # Absent
                     /\ cJSON_IsArray(required_array)
             THEN [ret |-> ESP_OK,
                   schema |-> [added EXCEPT !.m["required"] =
                                  cJSON_AddItemToArray(required_array,
                                      JStr(Deref(property_name)))]]
             ELSE [ret |-> ESP_OK, schema |-> added]

schema_builder_add_string(schema_obj, property_name, description, required) ==
    SchemaBuilderAdd(schema_obj, property_name,
                     schema_create_string(description, required), required)

schema_builder_add_integer(schema_obj, property_name, description, min_value, max_value, required) ==
    SchemaBuilderAdd(schema_obj, property_name,
                     schema_create_integer(description, min_value, max_value,
                                           required),
                     required)

schema_builder_add_boolean(schema_obj, property_name, description, required) ==
    SchemaBuilderAdd(schema_obj, property_name,
                     schema_create_boolean(description, required), required)

-----------------------------------------------------------------------------
(* The state after esp_mcp_server_start, and the record of the last call. *)

SchemaA ==
    ObjectOf({<<"type", JStr(S_object)>>,
              <<"properties",
                ObjectOf({<<"message",
                            ObjectOf({<<"type", JStr(<<"s", "t", "r", "i", "n", "g">>)>>})>>})>>})

SchemaB ==
    ObjectOf({<<"type", JStr(S_object)>>, <<"properties", ObjectOf({})>>})

NBuf == 2
NJson == 1

NoStats == [ret |-> "none"]
NoAlloc == [k |-> "noalloc"]
NoOut == [k |-> "noout"]

(* What a call was given and what it produced: the operation, the server
   handle (FALSE for NULL), the argument, the strings and schema the
   argument pointed to when the call was made, the esp_err_t returned, the
   statistics stored, for a dispatched message the response text, the
   method handler called and the callbacks invoked, for a registration
   the outcome of each allocation it may attempt, for a function applied
   on its own what it returned, and the registry the call was made on. *)
Last(op, handle, arg, given, ret, stats, response, handler, invoked) ==
    [op |-> op, handle |-> handle, arg |-> arg, given |-> given, ret |-> ret,
     stats |-> stats, response |-> response, handler |-> handler,
     invoked |-> invoked, alloc |-> NoAlloc, out |-> NoOut,
     before |-> registry]

(* A task that is in neither esp_mcp_server_register_tool nor a method
   handler. *)
Idle == [pc |-> "idle"]

Init ==
    /\ tools = <<>>
    /\ tool_count = 0
    /\ tool_capacity = InitialToolCapacity
    /\ resources = <<>>
    /\ resource_count = 0
    /\ resource_capacity = InitialResourceCapacity
    /\ active_sessions = 0
    /\ http_server = TRUE
    /\ callerBuf = [b \in 1..NBuf |-> <<"a">>]
    /\ callerJson = [j \in 1..NJson |-> SchemaA]
    /\ ok_tools = 0
    /\ ok_resources = 0
    /\ registering = Idle
    /\ dispatching = Idle
    /\ last = Last("start", TRUE, Absent, Absent, ESP_OK, NoStats, Absent,
                   NULL_FN, <<>>)

(* The strings and the schema a configuration points to at the call. *)
PtrValue(p) == IF p = NULL THEN NULL ELSE Lit(Deref(p))
JPtrValue(p) == IF p = NULL THEN NULL ELSE JOwn(JDeref(p))

GivenTool(cfg) ==
    IF cfg = NoConfig
    THEN Absent
    ELSE [name |-> PtrValue(cfg.name), title |-> PtrValue(cfg.title),
          description |-> PtrValue(cfg.description),
          input_schema |-> JPtrValue(cfg.input_schema),
          handler |-> cfg.handler, user_data |-> cfg.user_data]

GivenResource(cfg) ==
    IF cfg = NoConfig
    THEN Absent
    ELSE [uri_template |-> PtrValue(cfg.uri_template),
          name |-> PtrValue(cfg.name), title |-> PtrValue(cfg.title),
          description |-> PtrValue(cfg.description),
          mime_type |-> PtrValue(cfg.mime_type),
          handler |-> cfg.handler, user_data |-> cfg.user_data]

-----------------------------------------------------------------------------
(* Operations *)

RegisterTool(handle, cfg, alloc) ==
    LET r == esp_mcp_server_register_tool(handle, cfg, alloc)
    IN  /\ tools' = r.tools
        /\ tool_count' = r.tool_count
        /\ tool_capacity' = r.tool_capacity
        /\ ok_tools' = IF r.ret = ESP_OK THEN ok_tools + 1 ELSE ok_tools
        /\ last' = [Last("register_tool", handle, cfg, GivenTool(cfg), r.ret,
                         NoStats, Absent, NULL_FN, <<>>)
                        EXCEPT !.alloc = alloc]
        /\ UNCHANGED <<resources, resource_count, resource_capacity,
                       active_sessions, http_server, callerBuf, callerJson,
                       ok_resources, registering, dispatching>>

RegisterResource(handle, cfg, alloc) ==
    LET r == esp_mcp_server_register_resource(handle, cfg, alloc)
    IN  /\ resources' = r.resources
        /\ resource_count' = r.resource_count
        /\ resource_capacity' = r.resource_capacity
        /\ ok_resources' = IF r.ret = ESP_OK THEN ok_resources + 1
                           ELSE ok_resources
        /\ last' = [Last("register_resource", handle, cfg,
                         GivenResource(cfg), r.ret, NoStats, Absent, NULL_FN,
                         <<>>)
                        EXCEPT !.alloc = alloc]
        /\ UNCHANGED <<tools, tool_count, tool_capacity, active_sessions,
                       http_server, callerBuf, callerJson, ok_tools,
                       registering, dispatching>>

UnregisterTool(handle, tool_name) ==
    /\ last' = Last("unregister_tool", handle, tool_name, PtrValue(tool_name),
                    esp_mcp_server_unregister_tool(handle, tool_name),
                    NoStats, Absent, NULL_FN, <<>>)
    /\ UNCHANGED <<tools, tool_count, tool_capacity, resources,
                   resource_count, resource_capacity, active_sessions,
                   http_server, callerBuf, callerJson, ok_tools, ok_resources,
                   registering, dispatching>>

UnregisterResource(handle, resource_name) ==
    /\ last' = Last("unregister_resource", handle, resource_name,
                    PtrValue(resource_name),
                    esp_mcp_server_unregister_resource(handle, resource_name),
                    NoStats, Absent, NULL_FN, <<>>)
    /\ UNCHANGED <<tools, tool_count, tool_capacity, resources,
                   resource_count, resource_capacity, active_sessions,
                   http_server, callerBuf, callerJson, ok_tools, ok_resources,
                   registering, dispatching>>

GetStats(handle) ==
    LET r == esp_mcp_server_get_stats(handle)
    IN  /\ last' = Last("get_stats", handle, Absent, Absent, r.ret, r, Absent,
                        NULL_FN, <<>>)
        /\ UNCHANGED <<tools, tool_count, tool_capacity, resources,
                       resource_count, resource_capacity, active_sessions,
                       http_server, callerBuf, callerJson, ok_tools,
                       ok_resources, registering, dispatching>>

(* A call that replaces the context: the variables take the fields of
   r.ctx, and the count of successful registrations starts again when the
   registry it finds is a new one. *)
Replaced(r) ==
    /\ tools' = r.ctx.tools
    /\ tool_count' = r.ctx.tool_count
    /\ tool_capacity' = r.ctx.tool_capacity
    /\ resources' = r.ctx.resources
    /\ resource_count' = r.ctx.resource_count
    /\ resource_capacity' = r.ctx.resource_capacity
    /\ active_sessions' = r.ctx.active_sessions
    /\ http_server' = r.ctx.http_server
    /\ ok_tools' = IF r.ctx.tools = tools THEN ok_tools ELSE 0
    /\ ok_resources' = IF r.ctx.resources = resources THEN ok_resources
                       ELSE 0
    /\ UNCHANGED <<callerBuf, callerJson, registering, dispatching>>

Start(config, server_handle, alloc) ==
    LET r == esp_mcp_server_start(config, server_handle, alloc)
    IN  /\ Replaced(r)
        /\ last' = [Last("start", server_handle, config, Absent, r.ret,
                         NoStats, Absent, NULL_FN, <<>>)
                        EXCEPT !.alloc = alloc]

Stop(server_handle, freed) ==
    LET r == esp_mcp_server_stop(server_handle, freed)
    IN  /\ Replaced(r)
        /\ last' = Last("stop", server_handle, Absent, Absent, r.ret,
                        NoStats, Absent, NULL_FN, <<>>)

(* One inbound message handed to jsonrpc_process_request with the method
   table and the server context. *)
Dispatch(json, rets) ==
    LET r == jsonrpc_process_request(json, mcp_methods, rets)
    IN  /\ last' = Last("dispatch", TRUE, json, Absent, "none", NoStats,
                        r.response, r.handler, r.invoked)
        /\ UNCHANGED <<tools, tool_count, tool_capacity, resources,
                       resource_count, resource_capacity, active_sessions,
                       http_server, callerBuf, callerJson, ok_tools,
                       ok_resources, registering, dispatching>>

(* The application overwrites one of its string buffers (or frees it and
   the storage is reused). *)
CallerWrite(b, s) ==
    /\ callerBuf[b] # s
    /\ callerBuf' = [callerBuf EXCEPT ![b] = s]
    /\ last' = Last("caller_write", TRUE, Absent, Absent, "none", NoStats,
                    Absent, NULL_FN, <<>>)
    /\ UNCHANGED <<tools, tool_count, tool_capacity, resources,
                   resource_count, resource_capacity, active_sessions,
                   http_server, callerJson, ok_tools, ok_resources,
                   registering, dispatching>>

(* The application changes or deletes one of its cJSON trees. *)
CallerWriteJson(j, v) ==
    /\ callerJson[j] # v
    /\ callerJson' = [callerJson EXCEPT ![j] = v]
    /\ last' = Last("caller_write", TRUE, Absent, Absent, "none", NoStats,
                    Absent, NULL_FN, <<>>)
    /\ UNCHANGED <<tools, tool_count, tool_capacity, resources,
                   resource_count, resource_capacity, active_sessions,
                   http_server, callerBuf, ok_tools, ok_resources,
                   registering, dispatching>>

(* jsonrpc_parse_message applied to the text json_str, which denotes the
   document json (Unparseable when it denotes none). *)
ParseMessage(json_str, json) ==
    /\ last' = [Last("parse", TRUE, json, json_str, "none", NoStats, Absent,
                     NULL_FN, <<>>)
                   EXCEPT !.out = jsonrpc_parse_text(json_str)]
    /\ UNCHANGED <<tools, tool_count, tool_capacity, resources,
                   resource_count, resource_capacity, active_sessions,
                   http_server, callerBuf, callerJson, ok_tools, ok_resources,
                   registering, dispatching>>

(* jsonrpc_create_response, and jsonrpc_parse_message applied to the string
   it returned. *)
RenderResponse(id, result) ==
    LET response_str == jsonrpc_create_response_text(id, result)
    IN  /\ last' = [Last("render", TRUE, [id |-> id, result |-> result],
                         response_str, "none", NoStats, Absent, NULL_FN, <<>>)
                       EXCEPT !.out = jsonrpc_parse_text(response_str)]
        /\ UNCHANGED <<tools, tool_count, tool_capacity, resources,
                       resource_count, resource_capacity, active_sessions,
                       http_server, callerBuf, callerJson, ok_tools,
                       ok_resources, registering, dispatching>>

(* esp_mcp_uri_match_template applied to two strings. *)
MatchTemplate(template_uri, actual_uri) ==
    /\ last' = [Last("match", TRUE,
                     [template_uri |-> template_uri, actual_uri |-> actual_uri],
                     Absent, "none", NoStats, Absent, NULL_FN, <<>>)
                   EXCEPT !.out = esp_mcp_uri_match_template(template_uri,
                                                             actual_uri)]
    /\ UNCHANGED <<tools, tool_count, tool_capacity, resources,
                   resource_count, resource_capacity, active_sessions,
                   http_server, callerBuf, callerJson, ok_tools, ok_resources,
                   registering, dispatching>>

(* What the caller of schema_validate can read through error_path once the
   call has returned: the characters of a literal, and for a pointer into
   the property_path array of a validate_object call that has returned,
   whatever the storage holds by then. *)
Garbage == {<<>>, <<"?">>}

PathReads(error_path) ==
    CASE error_path = NULL -> {<<>>}
      [] error_path.k = "frame" -> {error_path.s} \cup Garbage
      [] OTHER -> {Deref(error_path)}

(* schema_validate applied to a value and a schema, and the caller's read
   of the path of the violation. *)
Validate(data, schema, path) ==
    LET result == schema_validate(data, schema)
    IN  /\ path \in PathReads(result.error_path)
        /\ last' = [Last("validate", TRUE, [data |-> data, schema |-> schema],
                         Absent, result.ret, NoStats, Absent, NULL_FN, <<>>)
                       EXCEPT !.out = [result |-> result, path |-> path]]
        /\ UNCHANGED <<tools, tool_count, tool_capacity, resources,
                       resource_count, resource_capacity, active_sessions,
                       http_server, callerBuf, callerJson, ok_tools,
                       ok_resources, registering, dispatching>>

(* schema_validate_tool_arguments applied to the arguments of a call and
   the input schema of a tool, either of which may be NULL, and the
   caller's read of the path of the violation. *)
ValidateToolArguments(arguments, input_schema, path) ==
    LET result == schema_validate_tool_arguments(arguments, input_schema)
    IN  /\ path \in PathReads(result.error_path)
        /\ last' = [Last("validate_tool_arguments", TRUE,
                         [arguments |-> arguments,
                          input_schema |-> input_schema],
                         Absent, result.ret, NoStats, Absent, NULL_FN, <<>>)
                       EXCEPT !.out = [result |-> result, path |-> path]]
        /\ UNCHANGED <<tools, tool_count, tool_capacity, resources,
                       resource_count, resource_capacity, active_sessions,
                       http_server, callerBuf, callerJson, ok_tools,
                       ok_resources, registering, dispatching>>

(* The schema builder at work on the caller's object callerJson[j].
   last.out.schema is the pointer schema_builder_create_object returned and
   last.given the calls made with it since, with their return values. *)
BuilderOps ==
    {"builder_create", "builder_add_string", "builder_add_integer",
     "builder_add_boolean"}

BuilderCreate(j) ==
    /\ callerJson' = [callerJson EXCEPT ![j] = schema_builder_create_object]
    /\ last' = [Last("builder_create", TRUE, Absent, <<>>, "none", NoStats,
                     Absent, NULL_FN, <<>>)
                   EXCEPT !.out = [schema |-> JBuf(j)]]
    /\ UNCHANGED <<tools, tool_count, tool_capacity, resources,
                   resource_count, resource_capacity, active_sessions,
                   http_server, callerBuf, ok_tools, ok_resources,
                   registering, dispatching>>

(* The state after a schema_builder_add call that returned r. *)
BuilderAdded(op, call, r) ==
    /\ last.op \in BuilderOps
    /\ call.schema_obj \in {NULL, last.out.schema}
    /\ callerJson' = IF call.schema_obj = NULL
                     THEN callerJson
                     ELSE [callerJson EXCEPT ![call.schema_obj.b] = r.schema]
    /\ last' = [Last(op, TRUE, call,
                     Append(last.given, [call |-> call, ret |-> r.ret]),
                     r.ret, NoStats, Absent, NULL_FN, <<>>)
                   EXCEPT !.out = last.out]
    /\ UNCHANGED <<tools, tool_count, tool_capacity, resources,
                   resource_count, resource_capacity, active_sessions,
                   http_server, callerBuf, ok_tools, ok_resources,
                   registering, dispatching>>

BuilderAddString(schema_obj, property_name, description, required) ==
    BuilderAdded("builder_add_string",
                 [schema_obj |-> schema_obj, property_name |-> property_name,
                  description |-> description, required |-> required],
                 schema_builder_add_string(schema_obj, property_name,
                                           description, required))

BuilderAddInteger(schema_obj, property_name, description, min_value, max_value, required) ==
    BuilderAdded("builder_add_integer",
                 [schema_obj |-> schema_obj, property_name |-> property_name,
                  description |-> description, min_value |-> min_value,
                  max_value |-> max_value, required |-> required],
                 schema_builder_add_integer(schema_obj, property_name,
                                            description, min_value, max_value,
                                            required))

BuilderAddBoolean(schema_obj, property_name, description, required) ==
    BuilderAdded("builder_add_boolean",
                 [schema_obj |-> schema_obj, property_name |-> property_name,
                  description |-> description, required |-> required],
                 schema_builder_add_boolean(schema_obj, property_name,
                                            description, required))

(* esp_mcp_server_register_tool and the loops of handle_list_tools and
   handle_call_tool, step by step.  esp_mcp_server_start has started the
   HTTP server, whose task runs the method handlers, before it returns the
   handle registration needs, and nothing in the code keeps the two tasks
   apart; a step is a stretch of code that reads or writes the context
   once.  registering and dispatching hold the position and the locals of
   the two tasks. *)

(* The call returns ret. *)
RegisterReturn(ret) ==
    /\ registering' = Idle
    /\ ok_tools' = IF ret = ESP_OK THEN ok_tools + 1 ELSE ok_tools
    /\ last' = [Last("register_tool", TRUE, registering.cfg,
                     GivenTool(registering.cfg), ret, NoStats, Absent,
                     NULL_FN, <<>>)
                   EXCEPT !.alloc = registering.alloc]

(* The argument checks. *)
RegisterBegin(cfg, alloc) ==
    /\ registering = Idle
    /\ cfg # NoConfig
    /\ ~MissingToolArgument(cfg)
    /\ registering' = [pc |-> "check", cfg |-> cfg, alloc |-> alloc]
    /\ UNCHANGED <<tools, tool_count, tool_capacity, resources,
                   resource_count, resource_capacity, active_sessions,
                   http_server, callerBuf, callerJson, ok_tools,
                   ok_resources, dispatching, last>>

(* The loop that looks for the name. *)
RegisterCheck ==
    /\ registering.pc = "check"
    /\ IF ToolExists(registering.cfg.name)
       THEN RegisterReturn(ESP_ERR_INVALID_STATE)
       ELSE /\ registering' = [registering EXCEPT !.pc = "grow"]
            /\ UNCHANGED <<ok_tools, last>>
    /\ UNCHANGED <<tools, tool_count, tool_capacity, resources,
                   resource_count, resource_capacity, active_sessions,
                   http_server, callerBuf, callerJson, ok_resources,
                   dispatching>>

(* expand_tool_array.  realloc gives the array a new place (moved) or
   extends it where it is; when it moves, the old array is freed, and a
   pointer to it that the other task has loaded is left dangling. *)
RegisterGrow(moved) ==
    LET e == expand_tool_array(registering.alloc.grow)
        grown == e.capacity # tool_capacity
    IN  /\ registering.pc = "grow"
        /\ moved => grown
        /\ IF e.ret # ESP_OK
           THEN /\ RegisterReturn(e.ret)
                /\ UNCHANGED <<tool_capacity, dispatching>>
           ELSE /\ tool_capacity' = e.capacity
                /\ registering' = [registering EXCEPT !.pc = "write"]
                /\ dispatching' =
                       IF moved /\ dispatching.pc = "read"
                       THEN [dispatching EXCEPT !.base = "freed"]
                       ELSE dispatching
                /\ UNCHANGED <<ok_tools, last>>
        /\ UNCHANGED <<tools, tool_count, resources, resource_count,
                       resource_capacity, active_sessions, http_server,
                       callerBuf, callerJson, ok_resources>>

(* The fields of slot tool_count are written. *)
RegisterWrite ==
    LET entry == NewTool(registering.cfg, registering.alloc)
    IN  /\ registering.pc = "write"
        /\ IF entry.name = NULL
           THEN /\ RegisterReturn(ESP_ERR_NO_MEM)
                /\ UNCHANGED tools
           ELSE /\ tools' = Append(tools, entry)
                /\ registering' = [registering EXCEPT !.pc = "count"]
                /\ UNCHANGED <<ok_tools, last>>
        /\ UNCHANGED <<tool_count, tool_capacity, resources, resource_count,
                       resource_capacity, active_sessions, http_server,
                       callerBuf, callerJson, ok_resources, dispatching>>

(* ctx->tool_count++ and the return. *)
RegisterCount ==
    /\ registering.pc = "count"
    /\ tool_count' = tool_count + 1
    /\ RegisterReturn(ESP_OK)
    /\ UNCHANGED <<tools, tool_capacity, resources, resource_count,
                   resource_capacity, active_sessions, http_server,
                   callerBuf, callerJson, ok_resources, dispatching>>

(* The method handler of a tools/list or tools/call message starts; name
   is the tool a tools/call message asks for. *)
HandlerBegin(method, name) ==
    /\ dispatching = Idle
    /\ http_server
    /\ dispatching' = [pc |-> "test", method |-> method, name |-> name,
                       i |-> 0, base |-> "none", seen |-> <<>>]
    /\ UNCHANGED <<tools, tool_count, tool_capacity, resources,
                   resource_count, resource_capacity, active_sessions,
                   http_server, callerBuf, callerJson, ok_tools,
                   ok_resources, registering, last>>

(* i < ctx->tool_count *)
HandlerTest ==
    /\ dispatching.pc = "test"
    /\ dispatching' = [dispatching EXCEPT
                           !.pc = IF dispatching.i < tool_count
                                  THEN "load" ELSE "done"]
    /\ UNCHANGED <<tools, tool_count, tool_capacity, resources,
                   resource_count, resource_capacity, active_sessions,
                   http_server, callerBuf, callerJson, ok_tools,
                   ok_resources, registering, last>>

(* ctx->tools is loaded. *)
HandlerLoad ==
    /\ dispatching.pc = "load"
    /\ dispatching' = [dispatching EXCEPT !.pc = "read", !.base = "owned"]
    /\ UNCHANGED <<tools, tool_count, tool_capacity, resources,
                   resource_count, resource_capacity, active_sessions,
                   http_server, callerBuf, callerJson, ok_tools,
                   ok_resources, registering, last>>

(* The entry i of the array that was loaded is read.  An array that has
   been freed since holds what it held (kept) or what the allocator and a
   later owner have put there (reused); with the latter the handler goes
   on in no defined way. *)
HandlerRead(freed) ==
    LET entry == [slot |-> dispatching.i + 1, through |-> dispatching.base,
                  value |-> IF dispatching.base = "owned" \/ freed = "kept"
                            THEN tools[dispatching.i + 1]
                            ELSE NoConfig]
        found == /\ dispatching.method = S_tools_call
                 /\ entry.value # NoConfig
                 /\ Deref(entry.value.name) = dispatching.name
                 /\ entry.value.handler # NULL_FN
    IN  /\ dispatching.pc = "read"
        /\ dispatching.base = "owned" => freed = "kept"
        /\ dispatching' = [dispatching EXCEPT
                               !.pc = IF entry.value = NoConfig THEN "fault"
                                      ELSE IF found THEN "done"
                                      ELSE "test",
                               !.i = dispatching.i + 1,
                               !.seen = Append(dispatching.seen, entry)]
        /\ UNCHANGED <<tools, tool_count, tool_capacity, resources,
                       resource_count, resource_capacity, active_sessions,
                       http_server, callerBuf, callerJson, ok_tools,
                       ok_resources, registering, last>>

(* The handler is through. *)
HandlerEnd ==
    /\ dispatching.pc \in {"done", "fault"}
    /\ dispatching' = Idle
    /\ last' = [Last("handler", TRUE, dispatching.method, Absent, "none",
                     NoStats, Absent, NULL_FN, <<>>)
                   EXCEPT !.out = dispatching]
    /\ UNCHANGED <<tools, tool_count, tool_capacity, resources,
                   resource_count, resource_capacity, active_sessions,
                   http_server, callerBuf, callerJson, ok_tools,
                   ok_resources, registering>>

-----------------------------------------------------------------------------
(* Inputs *)

N_a == <<"a">>
N_b == <<"b">>
N_empty == <<>>
N_r == <<"r">>
N_s == <<"s">>
N_zz == <<"z", "z">>
T_title == <<"T">>
D_description == <<"D">>
M_mime == <<"m", "/", "x">>
U_template == <<"e", ":", "/", "/", "{", "m", "}">>
U_literal == <<"e", ":", "/", "/", "x">>
U_other == <<"e", ":", "/", "/", "y">>
U_longer == <<"e", ":", "/", "/", "x", "/", "y">>

AllOk ==
    [grow |-> TRUE, uri_template |-> TRUE, name |-> TRUE, title |-> TRUE,
     description |-> TRUE, mime_type |-> TRUE, input_schema |-> TRUE]

(* Every allocation succeeds, or exactly one of them fails: realloc, the
   strdup of a required string, the strdup of an optional string, the
   cJSON_Duplicate of the schema. *)
AllocOutcomes ==
    {AllOk} \cup {[AllOk EXCEPT ![f] = FALSE] :
                    f \in {"grow", "uri_template", "name", "title",
                           "input_schema"}}

ToolConfig(name, title, description, input_schema, handler, user_data) ==
    [name |-> name, title |-> title, description |-> description,
     input_schema |-> input_schema, handler |-> handler,
     user_data |-> user_data]

ResourceConfig(uri_template, name, title, description, mime_type, handler, user_data) ==
    [uri_template |-> uri_template, name |-> name, title |-> title,
     description |-> description, mime_type |-> mime_type,
     handler |-> handler, user_data |-> user_data]

ToolConfigs ==
    {NoConfig,
     ToolConfig(NULL, Lit(T_title), NULL, NULL, "h1", 1),
     ToolConfig(Lit(N_a), NULL, NULL, NULL, NULL_FN, 1),
     ToolConfig(Lit(N_a), Lit(T_title), NULL, JBuf(1), "h1", 1),
     ToolConfig(Lit(N_a), NULL, Lit(D_description), NULL, "h2", 2),
     ToolConfig(Lit(N_empty), NULL, NULL, NULL, "h1", 0)}

ResourceConfigs ==
    {NoConfig,
     ResourceConfig(NULL, Lit(N_r), NULL, NULL, NULL, "g1", 1),
     ResourceConfig(Lit(U_template), NULL, NULL, NULL, NULL, "g1", 1),
     ResourceConfig(Lit(U_template), Lit(N_r), NULL, NULL, NULL, NULL_FN, 1),
     ResourceConfig(Lit(U_template), Lit(N_r), Lit(T_title), NULL, NULL,
                    "g1", 1),
     ResourceConfig(Lit(U_literal), Lit(N_r), NULL, Lit(D_description),
                    Lit(M_mime), "g2", 2),
     ResourceConfig(Lit(U_template), Lit(N_s), NULL, NULL, Lit(M_mime),
                    "g2", 0)}

UnregisterNames == {NULL, Lit(N_a), Lit(N_r), Lit(N_zz)}

(* A registration that may succeed only below the bound max of the model. *)
BoundedRegisterTool(handle, cfg, alloc, max) ==
    /\ esp_mcp_server_register_tool(handle, cfg, alloc).ret = ESP_OK
           => tool_count < max
    /\ RegisterTool(handle, cfg, alloc)

BoundedRegisterResource(handle, cfg, alloc, max) ==
    /\ esp_mcp_server_register_resource(handle, cfg, alloc).ret = ESP_OK
           => resource_count < max
    /\ RegisterResource(handle, cfg, alloc)

NoRets == [tool |-> Absent, resource |-> <<>>]

(* JSON-RPC documents *)
Message(id, method, params) ==
    ObjectOf({<<"jsonrpc", JStr(S_2_0)>>, <<"id", id>>,
              <<"method", method>>, <<"params", params>>})

Ids == {Absent, JNum(1), JStr(<<"i">>), JNull}

(* The ids the tools/call and resources/read messages are sent with: as a
   notification and as a request. *)
CallIds == {Absent, JNum(1)}

ToolCallParams ==
    {Absent,
     JStr(N_a),
     ObjectOf({}),
     ObjectOf({<<"name", JNum(1)>>}),
     ObjectOf({<<"name", JStr(N_a)>>}),
     ObjectOf({<<"name", JStr(N_a)>>,
               <<"arguments", ObjectOf({<<"message", JStr(N_b)>>})>>}),
     ObjectOf({<<"name", JStr(N_a)>>,
               <<"arguments", ObjectOf({<<"message", JNum(1)>>})>>}),
     ObjectOf({<<"name", JStr(S_get_system_info)>>}),
     ObjectOf({<<"name", JStr(N_zz)>>})}

ReadParams ==
    {Absent,
     ObjectOf({}),
     ObjectOf({<<"uri", JNum(1)>>})}
    \cup {ObjectOf({<<"uri", JStr(u)>>}) :
            u \in {U_literal, U_other, U_longer, S_system_status_uri}}

ToolCallMessages ==
    {Message(id, JStr(S_tools_call), p) : id \in CallIds, p \in ToolCallParams}

ReadMessages ==
    {Message(id, JStr(S_resources_read), p) : id \in CallIds, p \in ReadParams}

UnknownMethods ==
    {<<>>, <<"P", "i", "n", "g">>,
     <<"t", "o", "o", "l", "s", "/", "c", "a", "l", "l", "s">>}

OtherMessages ==
    {Message(id, JStr(m), Absent) :
        id \in Ids,
        m \in {S_initialize, S_initialized, S_ping, S_tools_list,
               S_resources_list} \cup UnknownMethods}
    \cup {Message(id, JStr(m), ObjectOf({<<"name", JStr(N_a)>>,
                                         <<"uri", JStr(U_literal)>>})) :
            id \in CallIds, m \in UnknownMethods}
    \cup {Message(id, JNum(7), Absent) : id \in CallIds}
    \cup {Unparseable,
          JArr(<<Message(JNum(1), JStr(S_ping), Absent)>>),
          ObjectOf({<<"id", JNum(1)>>, <<"method", JStr(S_ping)>>}),
          ObjectOf({<<"jsonrpc", JStr(<<"1", ".", "0">>)>>, <<"id", JNum(1)>>,
                    <<"method", JStr(S_ping)>>}),
          ObjectOf({<<"jsonrpc", JNum(2)>>, <<"method", JStr(S_ping)>>}),
          ObjectOf({<<"jsonrpc", JStr(S_2_0)>>, <<"id", JNum(1)>>,
                    <<"result", JNull>>}),
          ObjectOf({<<"jsonrpc", JStr(S_2_0)>>, <<"id", JNum(1)>>,
                    <<"error", ObjectOf({<<"code", JNum(1)>>})>>}),
          ObjectOf({<<"jsonrpc", JStr(S_2_0)>>, <<"id", JNum(1)>>})}

(* What a tool callback may return: NULL, a result, a result carrying the
   side-channel error marker with the value invalid_params (with a
   message, and with data and a message that is not a string), with
   another value, and with a value that is not a string. *)
ToolReturns ==
    {Absent,
     ObjectOf({<<"_jsonrpc_error", JStr(N_zz)>>}),
     ObjectOf({<<"_jsonrpc_error", JNum(1)>>, <<"message", JStr(N_b)>>}),
     ObjectOf({<<"content",
                 JArr(<<ObjectOf({<<"type", JStr(S_text)>>,
                                  <<"text", JStr(N_b)>>})>>)>>}),
     ObjectOf({<<"_jsonrpc_error", JStr(S_invalid_params)>>,
               <<"message", JStr(N_b)>>}),
     ObjectOf({<<"_jsonrpc_error", JStr(S_invalid_params)>>,
               <<"message", JNum(1)>>, <<"data", JStr(N_a)>>})}

(* What a resource callback may return: NULL or a string. *)
ResourceReturns == {NULL, Own(<<"c">>)}

DToolConfigs ==
    {ToolConfig(Lit(N_a), Lit(T_title), NULL, JBuf(1), "h1", 1),
     ToolConfig(Lit(S_get_system_info), NULL, NULL, NULL, "h2", 2)}

DResourceConfigs ==
    {ResourceConfig(Lit(U_template), Lit(N_r), NULL, NULL, NULL, "g1", 1),
     ResourceConfig(Lit(U_literal), Lit(N_s), NULL, NULL, Lit(M_mime),
                    "g2", 2),
     ResourceConfig(Lit(S_system_status_uri), Lit(N_a), NULL, NULL, NULL,
                    "g1", 0)}

-----------------------------------------------------------------------------
(* Spec: the registration interface, under every allocation outcome. *)

Next ==
    \/ \E cfg \in ToolConfigs, alloc \in AllocOutcomes :
           BoundedRegisterTool(TRUE, cfg, alloc, MaxTools)
    \/ \E cfg \in ToolConfigs : BoundedRegisterTool(FALSE, cfg, AllOk, MaxTools)
    \/ \E cfg \in ResourceConfigs, alloc \in AllocOutcomes :
           BoundedRegisterResource(TRUE, cfg, alloc, MaxResources)
    \/ \E cfg \in ResourceConfigs :
           BoundedRegisterResource(FALSE, cfg, AllOk, MaxResources)
    \/ \E handle \in BOOLEAN, name \in UnregisterNames :
           UnregisterTool(handle, name)
    \/ \E handle \in BOOLEAN, name \in UnregisterNames :
           UnregisterResource(handle, name)
    \/ \E handle \in BOOLEAN : GetStats(handle)

Spec == Init /\ [][Next]_vars

(* SpecDispatch: a registry filled by successful registrations, and the
   inbound messages. *)

(* The inbound messages paired with what the callbacks they may reach
   return. *)
DispatchInputs ==
    {<<json, [tool |-> ret, resource |-> <<>>]>> :
        json \in ToolCallMessages, ret \in ToolReturns}
    \cup {<<json, [tool |-> Absent, resource |-> ret]>> :
            json \in ReadMessages,
            ret \in [1..resource_count -> ResourceReturns]}
    \cup {<<json, NoRets>> : json \in OtherMessages}

NextDispatch ==
    \/ \E cfg \in DToolConfigs : BoundedRegisterTool(TRUE, cfg, AllOk, MaxTools)
    \/ \E cfg \in DResourceConfigs :
           BoundedRegisterResource(TRUE, cfg, AllOk, MaxResources)
    \/ \E in \in DispatchInputs : Dispatch(in[1], in[2])

SpecDispatch == Init /\ [][NextDispatch]_vars

-----------------------------------------------------------------------------
(* SpecGrow: registrations under names n, nn, nnn, ... up to MaxGrow entries
   per table, so that both arrays outgrow their initial capacity. *)

GrowName(k) == [i \in 1..k |-> "n"]

GrowAllocOutcomes ==
    {AllOk, [AllOk EXCEPT !.grow = FALSE], [AllOk EXCEPT !.name = FALSE]}

NextGrow ==
    \/ \E k \in 1..(tool_count + 1), alloc \in GrowAllocOutcomes :
           BoundedRegisterTool(TRUE,
               ToolConfig(Lit(GrowName(k)), NULL, NULL, NULL, "h1", k),
               alloc, MaxGrow)
    \/ \E k \in 1..(resource_count + 1), alloc \in GrowAllocOutcomes :
           BoundedRegisterResource(TRUE,
               ResourceConfig(Lit(U_template), Lit(GrowName(k)), NULL, NULL,
                              NULL, "g1", k),
               alloc, MaxGrow)
    \/ \E k \in {1, MaxGrow + 1} : UnregisterTool(TRUE, Lit(GrowName(k)))
    \/ \E k \in {1, MaxGrow + 1} : UnregisterResource(TRUE, Lit(GrowName(k)))
    \/ GetStats(TRUE)
    \/ \E m \in {S_tools_list, S_resources_list} :
           Dispatch(Message(JNum(1), JStr(m), Absent), NoRets)

SpecGrow == Init /\ [][NextGrow]_vars

-----------------------------------------------------------------------------
(* SpecMem: the configurations point into the caller's buffers, which the
   caller overwrites between the calls. *)

MemStrings == {N_a, N_b}
MemSchemas == {SchemaA, SchemaB}

MemToolAllocOutcomes ==
    {AllOk} \cup {[AllOk EXCEPT ![f] = FALSE] :
                    f \in {"name", "title", "input_schema"}}

MemResourceAllocOutcomes ==
    {AllOk} \cup {[AllOk EXCEPT ![f] = FALSE] :
                    f \in {"uri_template", "description", "mime_type"}}

MemToolConfigs ==
    {ToolConfig(Buf(1), Buf(2), NULL, JBuf(1), "h1", 1)}

MemResourceConfigs ==
    {ResourceConfig(Buf(1), Buf(2), NULL, Buf(1), Buf(2), "g1", 1)}

NextMem ==
    \/ \E cfg \in MemToolConfigs, alloc \in MemToolAllocOutcomes :
           BoundedRegisterTool(TRUE, cfg, alloc, MaxMem)
    \/ \E cfg \in MemResourceConfigs, alloc \in MemResourceAllocOutcomes :
           BoundedRegisterResource(TRUE, cfg, alloc, MaxMem)
    \/ \E b \in 1..NBuf, s \in MemStrings : CallerWrite(b, s)
    \/ \E j \in 1..NJson, v \in MemSchemas : CallerWriteJson(j, v)

SpecMem == Init /\ [][NextMem]_vars

(* SpecMessage: the message layer on its own, jsonrpc_parse_message on
   texts and jsonrpc_create_response followed by jsonrpc_parse_message. *)

ParseVersions == {Absent, JNull, JNum(2), JStr(<<"1", ".", "0">>)}
ParseIds == {Absent, JNull, JNum(1), JStr(<<"i">>)}
ParseMethods == {Absent, JStr(S_ping), JNum(7)}
ParseResults == {Absent, JNull, JNum(0)}
ParseErrors == {Absent, ObjectOf({<<"code", JNum(1)>>})}
ParseParams == {Absent, ObjectOf({})}

ParseDocuments ==
    {ObjectOf({<<"jsonrpc", JStr(S_2_0)>>, <<"id", id>>, <<"method", method>>,
               <<"result", result>>, <<"error", error>>,
               <<"params", params>>}) :
        id \in ParseIds, method \in ParseMethods, result \in ParseResults,
        error \in ParseErrors, params \in ParseParams}
    \cup {ObjectOf({<<"jsonrpc", version>>, <<"id", id>>,
                    <<"method", JStr(S_ping)>>, <<"result", result>>}) :
            version \in ParseVersions, id \in ParseIds,
            result \in ParseResults}
    \cup {JNull, JNum(1), JStr(S_2_0), JArr(<<>>),
          JArr(<<Message(JNum(1), JStr(S_ping), Absent)>>)}

MalformedTexts ==
    {<<>>,
     <<Punct("{")>>,
     <<Punct("]")>>,
     <<Punct("{"), [k |-> "key", name |-> "jsonrpc"], Punct(":")>>,
     <<Punct("{"), [k |-> "key", name |-> "jsonrpc"], Punct(":"),
       [k |-> "str", s |-> S_2_0], Punct(",")>>,
     <<Punct("["), [k |-> "num", n |-> 1], Punct(","), Punct("]")>>}

MessageInputs ==
    {<<cJSON_Print(json), json>> : json \in ParseDocuments}
    \cup {<<json_str, Unparseable>> : json_str \in MalformedTexts}

RenderIds == {Absent, JNum(0), JNum(1), JStr(<<>>), JStr(<<"i">>)}

RenderResults ==
    {Absent, JNull, JBool(TRUE), JBool(FALSE), JNum(0), JNum(-1),
     JStr(<<>>), JStr(S_ping), JArr(<<>>), JArr(<<JNum(1), JNull>>),
     JArr(<<JArr(<<>>), ObjectOf({})>>),
     ObjectOf({}),
     ObjectOf({<<"error", JStr(S_Unknown_tool)>>}),
     ObjectOf({<<"method", JStr(S_ping)>>, <<"id", JNum(5)>>,
               <<"jsonrpc", JStr(<<"1", ".", "0">>)>>}),
     ObjectOf({<<"result", ObjectOf({<<"result", JNull>>})>>,
               <<"tools", JArr(<<ObjectOf({<<"name", JStr(N_a)>>})>>)>>})}

NextMessage ==
    \/ \E in \in MessageInputs : ParseMessage(in[1], in[2])
    \/ \E id \in RenderIds, result \in RenderResults :
           RenderResponse(id, result)

SpecMessage == Init /\ [][NextMessage]_vars

(* SpecUri: esp_mcp_uri_match_template on its own, on templates and URIs
   of up to MAX_SEGMENTS + 2 segments and placeholder names of up to
   PARAM_NAME_SIZE characters. *)

Repeated(c, n) == [i \in 1..n |-> c]

(* n segments s, each followed by '/', then the segment last_segment. *)
Path(n, last_segment) ==
    [i \in 1..(2 * n) |-> IF i % 2 = 1 THEN "s" ELSE "/"] \o last_segment

UriTemplates ==
    {<<>>, <<"/">>, <<"{", "x", "}">>, <<"{", "}">>, <<"{", "x">>, <<"a", "/", "b">>, <<"a", "/", "/", "b", "/">>, <<"a", "/", "{", "x", "}">>, <<"{", "x", "}", "/", "{", "y", "}">>,
     <<"e", "c", "h", "o", ":", "/", "/", "{", "m", "e", "s", "s", "a", "g", "e", "}">>, <<"e", "c", "h", "o", ":", "/", "/", "h", "e", "l", "l", "o">>,
     <<"{">> \o Repeated("n", PARAM_NAME_SIZE - 1) \o <<"}">>,
     <<"{">> \o Repeated("n", PARAM_NAME_SIZE) \o <<"}">>,
     Path(MAX_SEGMENTS - 1, <<"{", "x", "}">>),
     Path(MAX_SEGMENTS, <<"{", "x", "}">>),
     Path(MAX_SEGMENTS, <<"t">>),
     Path(MAX_SEGMENTS + 1, <<"t">>)}

UriCandidates ==
    {<<>>, <<"/">>, <<"a">>, <<"a", "/", "b">>, <<"a", "/", "c">>, <<"/", "a", "/", "/", "b">>, <<"a", "/", "b", "/", "c">>, <<"e", "c", "h", "o", ":", "/", "/", "h", "e", "l", "l", "o">>,
     <<"e", "c", "h", "o", ":", "/", "h", "e", "l", "l", "o">>, <<"e", "c", "h", "o", ":", "/", "/">>,
     Path(MAX_SEGMENTS - 1, <<"u">>),
     Path(MAX_SEGMENTS, <<"u">>),
     Path(MAX_SEGMENTS + 1, <<"u">>)}

NextUri ==
    \E template_uri \in UriTemplates, actual_uri \in UriCandidates :
        MatchTemplate(template_uri, actual_uri)

SpecUri == Init /\ [][NextUri]_vars

(* SpecSchema: schema_validate and schema_validate_tool_arguments on their
   own: on numbers around the bounds of a numeric schema, at the top level
   and as a property of an object; on object schemas with and without
   properties and required names; on schemas whose type is missing, not a
   string or not a known one; on objects with members no property declares
   and on objects whose members come in either order. *)

NumericSchemas ==
    {ObjectOf({<<"type", JStr(type)>>, <<"minimum", minimum>>,
               <<"maximum", maximum>>}) :
        type \in {S_integer, S_number},
        minimum \in {Absent, JNum(0)},
        maximum \in {Absent, JNum(39)}}

(* The schema of the gpio_control example with the given schema for pin. *)
PinSchema(pin) ==
    ObjectOf({<<"type", JStr(S_object)>>,
              <<"properties",
                ObjectOf({<<"pin", pin>>,
                          <<"state", ObjectOf({<<"type", JStr(S_boolean)>>})>>})>>,
              <<"required", JArr(<<JStr(<<"p", "i", "n">>), JStr(<<"s", "t", "a", "t", "e">>)>>)>>})

Schemas ==
    NumericSchemas
    \cup {PinSchema(pin) : pin \in NumericSchemas}
    \cup {ObjectOf({<<"type", JStr(S_object)>>,
                    <<"properties",
                      ObjectOf({<<"inner", PinSchema(pin)>>})>>}) :
            pin \in NumericSchemas}
    \cup {ObjectOf({}), ObjectOf({<<"type", JStr(S_string)>>}),
          ObjectOf({<<"type", JStr(<<"a", "r", "r", "a", "y">>)>>})}

PinProperty == ObjectOf({<<"type", JStr(S_integer)>>})

PinAndStateProperties ==
    ObjectOf({<<"pin", PinProperty>>,
              <<"state", ObjectOf({<<"type", JStr(S_boolean)>>})>>})

ObjectSchemas ==
    {schema_create_object(Absent, NULL),
     schema_create_object(Absent, Lit(<<Spelled["pin"]>>)),
     schema_create_object(ObjectOf({<<"pin", PinProperty>>}),
                          Lit(<<Spelled["pin"], Spelled["message"]>>)),
     schema_create_object(PinAndStateProperties,
                          Lit(<<Spelled["state"], Spelled["pin"]>>))}

(* Schemas whose type is missing, not a string, or not a known one. *)
UntypedSchemas ==
    {ObjectOf({}), ObjectOf({<<"type", JNum(1)>>}),
     ObjectOf({<<"type", JStr(<<"a", "r", "r", "a", "y">>)>>})}

AllSchemas ==
    Schemas \cup ObjectSchemas \cup UntypedSchemas
    \cup {PinSchema(pin) : pin \in UntypedSchemas}

SchemaNumbers == {JNum(-1), JNum(0), JNum(2), JNum(39), JNum(40), JNum(50)}

PinData ==
    {ObjectOf({<<"pin", pin>>, <<"state", state>>}) :
        pin \in SchemaNumbers \cup {Absent, JStr(<<"x">>)},
        state \in {Absent, JBool(TRUE)}}

SchemaData ==
    SchemaNumbers
    \cup {JNull, JBool(TRUE), JStr(<<"x">>)}
    \cup PinData
    \cup {ObjectOf({<<"inner", data>>}) :
            data \in {ObjectOf({<<"pin", JNum(50)>>, <<"state", JBool(TRUE)>>}),
                      ObjectOf({<<"pin", JNum(2)>>, <<"state", JBool(TRUE)>>})}}

(* Values of each JSON type for a member that no property declares. *)
ExtraValues ==
    {JNull, JNum(1), JStr(<<"x">>), JBool(FALSE), ObjectOf({}), JArr(<<>>)}

ExtraData ==
    {ObjectOf({<<"pin", JNum(2)>>, <<"state", JBool(TRUE)>>,
               <<"message", extra>>}) : extra \in ExtraValues}
    \cup {ObjectOf({<<"pin", JNum(2)>>, <<"message", JStr(<<"x">>)>>}),
          ObjectOf({<<"message", JNum(1)>>})}

(* Objects with two members that break the schema of the gpio_control
   example, in either order. *)
OrderedData ==
    {Ordered(ObjectOf({<<"pin", pin>>, <<"state", JNum(1)>>}), keys) :
        pin \in {JStr(<<"x">>), JNum(50)},
        keys \in {<<"pin", "state">>, <<"state", "pin">>}}

AllSchemaData == SchemaData \cup ExtraData \cup OrderedData

ToolArguments ==
    {Absent, ObjectOf({}), JNum(2),
     ObjectOf({<<"pin", JNum(2)>>, <<"state", JBool(TRUE)>>}),
     ObjectOf({<<"pin", JNum(50)>>, <<"state", JBool(TRUE)>>})}

InputSchemas ==
    {Absent, ObjectOf({<<"type", JStr(S_string)>>})}
    \cup ObjectSchemas \cup UntypedSchemas
    \cup {PinSchema(ObjectOf({<<"type", JStr(S_integer)>>,
                              <<"minimum", JNum(0)>>,
                              <<"maximum", JNum(39)>>}))}

NextSchema ==
    \/ \E data \in AllSchemaData, schema \in AllSchemas :
           \E path \in PathReads(schema_validate(data, schema).error_path) :
               Validate(data, schema, path)
    \/ \E arguments \in ToolArguments, input_schema \in InputSchemas :
           \E path \in PathReads(schema_validate_tool_arguments(
                                      arguments, input_schema).error_path) :
               ValidateToolArguments(arguments, input_schema, path)

SpecSchema == Init /\ [][NextSchema]_vars

(* SpecStop: a server that is stopped and started while tools and
   resources are registered, statistics are read, and, as long as the HTTP
   server runs, the lists are asked for.  A call that is given the handle
   of a stopped server reads the context where esp_mcp_server_stop freed
   it. *)

StartConfigs ==
    {NULL, [port |-> 0, max_sessions |-> 4], [port |-> 80, max_sessions |-> 0],
     [port |-> 80, max_sessions |-> 4]}

StartAllocOutcomes ==
    {[ctx |-> TRUE, tools |-> TRUE, resources |-> TRUE, httpd |-> TRUE],
     [ctx |-> FALSE, tools |-> TRUE, resources |-> TRUE, httpd |-> TRUE],
     [ctx |-> TRUE, tools |-> FALSE, resources |-> TRUE, httpd |-> TRUE],
     [ctx |-> TRUE, tools |-> TRUE, resources |-> FALSE, httpd |-> TRUE],
     [ctx |-> TRUE, tools |-> TRUE, resources |-> TRUE, httpd |-> FALSE]}

ListMessages ==
    {Message(JNum(1), JStr(m), Absent) :
        m \in {S_tools_list, S_resources_list}}

NextStop ==
    \/ \E cfg \in DToolConfigs : BoundedRegisterTool(TRUE, cfg, AllOk, MaxTools)
    \/ \E cfg \in DResourceConfigs :
           BoundedRegisterResource(TRUE, cfg, AllOk, MaxResources)
    \/ GetStats(TRUE)
    \/ \E server_handle \in BOOLEAN, freed \in FreedReads :
           Stop(server_handle, freed)
    \/ \E config \in StartConfigs, server_handle \in BOOLEAN,
             alloc \in StartAllocOutcomes :
           Start(config, server_handle, alloc)
    \/ \E json \in ListMessages : http_server /\ Dispatch(json, NoRets)

SpecStop == Init /\ [][NextStop]_vars

-----------------------------------------------------------------------------
(* SpecBuilder: one call of schema_builder_create_object followed by calls
   of the three schema_builder_add functions, at most MaxBuilderCalls of
   them, with the pointer it returned or with NULL, and with a property
   name or NULL. *)

MaxBuilderCalls == 3

StringCalls ==
    {<<Lit(Spelled["pin"]), Lit(D_description), TRUE>>,
     <<Lit(Spelled["pin"]), NULL, FALSE>>,
     <<Lit(Spelled["state"]), Lit(D_description), FALSE>>,
     <<NULL, NULL, TRUE>>}

IntegerCalls ==
    {<<Lit(Spelled["pin"]), NULL, INT32_MIN, INT32_MAX, TRUE>>,
     <<Lit(Spelled["state"]), Lit(D_description), 0, 39, TRUE>>,
     <<Lit(Spelled["state"]), NULL, 0, INT32_MAX, FALSE>>,
     <<NULL, NULL, 0, 39, TRUE>>}

BooleanCalls ==
    {<<Lit(Spelled["state"]), NULL, TRUE>>,
     <<Lit(Spelled["pin"]), Lit(D_description), FALSE>>,
     <<Lit(Spelled["message"]), NULL, TRUE>>}

(* The builder is at work and fewer than MaxBuilderCalls calls were
   made. *)
MoreCalls == last.op \in BuilderOps /\ Len(last.given) < MaxBuilderCalls

NextBuilder ==
    \/ \E j \in 1..NJson : last.op \notin BuilderOps /\ BuilderCreate(j)
    \/ \E schema_obj \in {NULL} \cup {JBuf(j) : j \in 1..NJson},
             call \in StringCalls :
           /\ MoreCalls
           /\ BuilderAddString(schema_obj, call[1], call[2], call[3])
    \/ \E schema_obj \in {NULL} \cup {JBuf(j) : j \in 1..NJson},
             call \in IntegerCalls :
           /\ MoreCalls
           /\ BuilderAddInteger(schema_obj, call[1], call[2], call[3],
                                call[4], call[5])
    \/ \E schema_obj \in {NULL} \cup {JBuf(j) : j \in 1..NJson},
             call \in BooleanCalls :
           /\ MoreCalls
           /\ BuilderAddBoolean(schema_obj, call[1], call[2], call[3])

SpecBuilder == Init /\ [][NextBuilder]_vars

-----------------------------------------------------------------------------
(* SpecRace: the task that registers tools, up to MaxGrow of them so that
   the array grows once, and the task of the HTTP server running the loops
   of tools/list and tools/call, in every interleaving of their steps. *)

NextRace ==
    \/ \E k \in {1, tool_count + 1}, failing \in {"none", "grow", "name"} :
           /\ tool_count < MaxGrow
           /\ RegisterBegin(ToolConfig(Lit(GrowName(k)), NULL, NULL, NULL,
                                       "h1", k),
                            IF failing = "none" THEN AllOk
                            ELSE [AllOk EXCEPT ![failing] = FALSE])
    \/ RegisterCheck
    \/ \E moved \in BOOLEAN : RegisterGrow(moved)
    \/ RegisterWrite
    \/ RegisterCount
    \/ HandlerBegin(S_tools_list, <<>>)
    \/ HandlerBegin(S_tools_call, GrowName(InitialToolCapacity))
    \/ HandlerTest
    \/ HandlerLoad
    \/ \E freed \in FreedReads : HandlerRead(freed)
    \/ HandlerEnd

SpecRace == Init /\ [][NextRace]_vars

-----------------------------------------------------------------------------
(* Vocabulary of the properties.  last' is the record of the call a step
   makes, the unprimed variables are the registry the call was made on. *)

ToolNames == [i \in 1..tool_count |-> Deref(tools[i].name)]
ResourceNames == [i \in 1..resource_count |-> Deref(resources[i].name)]

Distinct(seq) == \A i, j \in DOMAIN seq : seq[i] = seq[j] => i = j

Occurs(seq, x) == \E i \in DOMAIN seq : seq[i] = x

(* A registration call made on a server with a configuration. *)
ToolCall ==
    last'.op = "register_tool" /\ last'.handle /\ last'.arg # NoConfig

ResourceCall ==
    last'.op = "register_resource" /\ last'.handle /\ last'.arg # NoConfig

(* ... whose name is the name of an entry of the table. *)
DuplicateToolCall ==
    /\ ToolCall
    /\ last'.given.name # NULL
    /\ Occurs(ToolNames, last'.given.name.s)

DuplicateResourceCall ==
    /\ ResourceCall
    /\ last'.given.name # NULL
    /\ Occurs(ResourceNames, last'.given.name.s)

(* ... with every required field present. *)
CompleteToolCall ==
    /\ ToolCall
    /\ last'.given.name # NULL
    /\ last'.given.handler # NULL_FN

CompleteResourceCall ==
    /\ ResourceCall
    /\ last'.given.uri_template # NULL
    /\ last'.given.name # NULL
    /\ last'.given.handler # NULL_FN

(* The entries of both tables stay where they are and as they are. *)
EntriesKept ==
    /\ tool_count' >= tool_count
    /\ resource_count' >= resource_count
    /\ \A i \in 1..tool_count : tools'[i] = tools[i]
    /\ \A i \in 1..resource_count : resources'[i] = resources[i]

(* C1, as stated: a registration whose name is the name of an entry returns
   the conflict error and leaves the table as it was, so that the names of
   each table are pairwise distinct and no entry ever changes. *)
C1_Original ==
    [][/\ DuplicateToolCall =>
            /\ last'.ret = ESP_ERR_INVALID_STATE
            /\ tools' = tools /\ tool_count' = tool_count
       /\ DuplicateResourceCall =>
            /\ last'.ret = ESP_ERR_INVALID_STATE
            /\ resources' = resources /\ resource_count' = resource_count
       /\ Distinct(ToolNames') /\ Distinct(ResourceNames')
       /\ EntriesKept]_vars

(* C1, amended: a registration whose name is the name of an entry is never
   accepted and leaves the table as it was; it returns the conflict error
   when its required fields are all present, and the invalid-argument error
   when the handler (or the URI template of a resource) is missing.  The
   names of each table are pairwise distinct and no entry ever changes. *)
C1_Amended ==
    [][/\ DuplicateToolCall =>
            /\ last'.ret = IF last'.given.handler # NULL_FN
                           THEN ESP_ERR_INVALID_STATE
                           ELSE ESP_ERR_INVALID_ARG
            /\ tools' = tools /\ tool_count' = tool_count
       /\ DuplicateResourceCall =>
            /\ last'.ret = IF CompleteResourceCall
                           THEN ESP_ERR_INVALID_STATE
                           ELSE ESP_ERR_INVALID_ARG
            /\ resources' = resources /\ resource_count' = resource_count
       /\ Distinct(ToolNames') /\ Distinct(ResourceNames')
       /\ EntriesKept]_vars

(* A second registration under a registered name, with another handler, has
   just been refused with the conflict error. *)
C1_Witness ==
    /\ last.op = "register_tool"
    /\ last.ret = ESP_ERR_INVALID_STATE
    /\ \E i \in 1..tool_count :
          /\ ToolNames[i] = last.given.name.s
          /\ tools[i].handler # last.given.handler

(* C2: registerTool returns the invalid-argument error when the name or the
   handler is missing, registerResource when the URI template, the name or
   the handler is missing; with these present both return the conflict
   error when the name is the name of an entry; and a registration that
   returns anything but ESP_OK (invalid argument, conflict, out of memory)
   leaves both sequences, both counts and the statistics as they were. *)
C2_FailedRegistration ==
    [][/\ (ToolCall /\ ~CompleteToolCall) => last'.ret = ESP_ERR_INVALID_ARG
       /\ (ResourceCall /\ ~CompleteResourceCall) =>
              last'.ret = ESP_ERR_INVALID_ARG
       /\ (CompleteToolCall /\ DuplicateToolCall) =>
              last'.ret = ESP_ERR_INVALID_STATE
       /\ (CompleteResourceCall /\ DuplicateResourceCall) =>
              last'.ret = ESP_ERR_INVALID_STATE
       /\ (/\ last'.op \in {"register_tool", "register_resource"}
           /\ last'.ret # ESP_OK) =>
              /\ registry' = registry
              /\ esp_mcp_server_get_stats(TRUE)' = esp_mcp_server_get_stats(TRUE)
      ]_vars

(* A registration has just failed for want of memory on a registry that
   holds a tool and a resource. *)
C2_Witness ==
    /\ last.op \in {"register_tool", "register_resource"}
    /\ last.ret = ESP_ERR_NO_MEM
    /\ tool_count >= 1
    /\ resource_count >= 1

(* C3, as stated: registerTool given the empty string as name returns the
   invalid-argument error, and no entry of the tool table has the empty
   name. *)
C3_Original ==
    [][/\ (ToolCall /\ last'.given.name = Lit(<<>>)) =>
              last'.ret = ESP_ERR_INVALID_ARG
       /\ ~Occurs(ToolNames', <<>>)]_vars

(* C3, amended: only a missing name is refused as an invalid argument.  The
   empty string is a name like any other: with a handler it is refused
   with the conflict error when the table has an entry of that name, and
   otherwise, when the allocations succeed, it is registered under the
   empty name. *)
C3_Amended ==
    [][/\ (ToolCall /\ last'.given.name = NULL) =>
              last'.ret = ESP_ERR_INVALID_ARG /\ registry' = registry
       /\ (CompleteToolCall /\ last'.given.name = Lit(<<>>)) =>
              IF Occurs(ToolNames, <<>>)
              THEN last'.ret = ESP_ERR_INVALID_STATE
              ELSE IF /\ tool_count < tool_capacity \/ last'.alloc.grow
                      /\ last'.alloc.name
              THEN /\ last'.ret = ESP_OK
                   /\ tool_count' = tool_count + 1
                   /\ ToolNames'[tool_count'] = <<>>
              ELSE last'.ret = ESP_ERR_NO_MEM]_vars

(* A tool has just been registered under the empty name. *)
C3_Witness ==
    /\ last.op = "register_tool"
    /\ last.ret = ESP_OK
    /\ last.given.name = Lit(<<>>)
    /\ ToolNames[tool_count] = <<>>

(* An unregistration call made on a server with a name. *)
UnregisterCall ==
    /\ last'.op \in {"unregister_tool", "unregister_resource"}
    /\ last'.handle
    /\ last'.arg # NULL

(* C6: unregisterTool and unregisterResource given a name, registered or
   not, return the not-supported error and leave both sequences and both
   counts as they were. *)
C6_UnregisterNotSupported ==
    [][UnregisterCall =>
          /\ last'.ret = ESP_ERR_NOT_SUPPORTED
          /\ registry' = registry]_vars

(* The unregistration of a registered tool has just been refused. *)
C6_Witness ==
    /\ last.op = "unregister_tool"
    /\ last.handle
    /\ last.arg # NULL
    /\ Occurs(ToolNames, last.given.s)
    /\ last.ret = ESP_ERR_NOT_SUPPORTED

(* C4: in every step (a registration, an unregistration attempt, a
   dispatched message, a statistics call) each table keeps its entries in
   place and unchanged and gains at most one entry, at its end, exactly
   when a registration returns ESP_OK; and the statistics report as
   total_tools and total_resources the numbers of registrations that have
   returned ESP_OK. *)
C4_AppendOnly ==
    [][/\ EntriesKept
       /\ Len(tools') = tool_count'
       /\ Len(resources') = resource_count'
       /\ tool_count' = IF last'.op = "register_tool" /\ last'.ret = ESP_OK
                        THEN tool_count + 1 ELSE tool_count
       /\ resource_count' =
              IF last'.op = "register_resource" /\ last'.ret = ESP_OK
              THEN resource_count + 1 ELSE resource_count
       /\ (last'.op = "get_stats" /\ last'.handle) =>
              /\ last'.stats.ret = ESP_OK
              /\ last'.stats.total_tools = ok_tools'
              /\ last'.stats.total_resources = ok_resources']_vars

(* The statistics have just been read after both arrays were reallocated
   to hold more entries than their initial capacity. *)
C4_Witness ==
    /\ last.op = "get_stats"
    /\ last.stats.total_tools > InitialToolCapacity
    /\ last.stats.total_resources > InitialResourceCapacity
    /\ tool_capacity > InitialToolCapacity
    /\ resource_capacity > InitialResourceCapacity

(* The stored pointer is a copy owned by the registry of the string given,
   or NULL when no string was given. *)
StringCopied(stored, given) ==
    IF given = NULL
    THEN stored = NULL
    ELSE stored = Own(given.s)

SchemaCopied(stored, given) ==
    IF given = NULL
    THEN stored = NULL
    ELSE stored = JOwn(given.v)

(* C5, as stated: a registration that returns ESP_OK leaves in the new
   entry a copy of every string and of the schema the configuration pointed
   to; and whatever the caller then writes to its buffers, the tools/list
   and resources/list elements of the entries and the names and URI
   templates used for routing stay the same. *)
C5_Original ==
    [][/\ (last'.op = "register_tool" /\ last'.ret = ESP_OK) =>
            LET e == tools'[tool_count']
                g == last'.given
            IN  /\ StringCopied(e.name, g.name)
                /\ StringCopied(e.title, g.title)
                /\ StringCopied(e.description, g.description)
                /\ SchemaCopied(e.input_schema, g.input_schema)
       /\ (last'.op = "register_resource" /\ last'.ret = ESP_OK) =>
            LET e == resources'[resource_count']
                g == last'.given
            IN  /\ StringCopied(e.uri_template, g.uri_template)
                /\ StringCopied(e.name, g.name)
                /\ StringCopied(e.title, g.title)
                /\ StringCopied(e.description, g.description)
                /\ StringCopied(e.mime_type, g.mime_type)
       /\ \A i \in 1..tool_count :
            /\ ToolListEntry(i)' = ToolListEntry(i)
            /\ ToolNames'[i] = ToolNames[i]
       /\ \A i \in 1..resource_count :
            /\ ResourceListEntry(i)' = ResourceListEntry(i)
            /\ ResourceNames'[i] = ResourceNames[i]
            /\ Deref(resources[i].uri_template)'
                   = Deref(resources[i].uri_template)]_vars

-----------------------------------------------------------------------------
(* Vocabulary of the properties of message dispatch.  last.arg is the
   message, last.response the text returned (Absent for none). *)

Member(v, k) == IF v.t = "object" /\ k \in DOMAIN v.m THEN v.m[k] ELSE Absent

ProtocolMethods ==
    {S_initialize, S_initialized, S_ping, S_tools_list, S_tools_call,
     S_resources_list, S_resources_read}

(* A JSON-RPC 2.0 message with a method. *)
HasMethod(json) ==
    /\ Member(json, "jsonrpc") = JStr(S_2_0)
    /\ Member(json, "method").t = "string"

Dispatched == last.op = "dispatch"

DispatchedNotification ==
    Dispatched /\ HasMethod(last.arg) /\ Member(last.arg, "id") = Absent

DispatchedRequest ==
    Dispatched /\ HasMethod(last.arg) /\ Member(last.arg, "id") # Absent

DispatchedRequestOf(method) ==
    DispatchedRequest /\ Member(last.arg, "method").s = method

(* The response is the JSON-RPC error object of this code and message with
   the id of the request. *)
ErrorReply(code, message) ==
    /\ Member(last.response, "jsonrpc") = JStr(S_2_0)
    /\ Member(last.response, "result") = Absent
    /\ Member(Member(last.response, "error"), "code") = JNum(code)
    /\ Member(Member(last.response, "error"), "message") = JStr(message)
    /\ Member(last.response, "id") = Member(last.arg, "id")

(* The response is a success envelope with the id of the request. *)
SuccessReply ==
    /\ Member(last.response, "jsonrpc") = JStr(S_2_0)
    /\ Member(last.response, "error") = Absent
    /\ Member(last.response, "result") # Absent
    /\ Member(last.response, "id") = Member(last.arg, "id")

ErrorPayload(text) == JObj([k \in {"error"} |-> JStr(text)])

(* C7: a message with a method and no id gets no reply, whether or not the
   method is in the method table and whatever the handlers return. *)
C7_NotificationNoReply ==
    DispatchedNotification => last.response = Absent

(* A tools/call notification has run the handler of a registered tool and
   got no reply. *)
C7_Witness ==
    /\ DispatchedNotification
    /\ Len(last.invoked) = 1
    /\ last.invoked[1].kind = "tool"
    /\ last.response = Absent

(* C8: a request whose method is not one of the seven protocol methods is
   answered with the error -32601 "Method not found" carrying its id, and
   no method handler and no callback is called for it. *)
C8_MethodNotFound ==
    (DispatchedRequest /\ Member(last.arg, "method").s \notin ProtocolMethods)
        => /\ ErrorReply(-32601, S_Method_not_found)
           /\ last.handler = NULL_FN
           /\ last.invoked = <<>>

(* A request for the method tools/calls, naming a registered tool, has been
   answered with Method not found. *)
C8_Witness ==
    /\ DispatchedRequest
    /\ Member(last.arg, "method").s = S_tools_call \o <<"s">>
    /\ Member(Member(last.arg, "params"), "name").t = "string"
    /\ Occurs(ToolNames, Member(Member(last.arg, "params"), "name").s)
    /\ ErrorReply(-32601, S_Method_not_found)

RequestedTool == Member(Member(last.arg, "params"), "name")
RequestedUri == Member(Member(last.arg, "params"), "uri")

(* C9: a tools/call request naming a tool that is neither registered nor
   get_system_info is answered with a success envelope whose result is
   {"error":"Unknown tool"}; a resources/read request whose URI matches no
   registered template and is not the built-in URI is answered with a
   success envelope whose result is {"error":"Resource not found"}. *)
C9_UnknownToolAndResource ==
    /\ (/\ DispatchedRequestOf(S_tools_call)
        /\ RequestedTool.t = "string"
        /\ ~Occurs(ToolNames, RequestedTool.s)
        /\ RequestedTool.s # S_get_system_info)
           => /\ SuccessReply
              /\ Member(last.response, "result") = ErrorPayload(S_Unknown_tool)
    /\ (/\ DispatchedRequestOf(S_resources_read)
        /\ RequestedUri.t = "string"
        /\ \A i \in 1..resource_count :
              ~esp_mcp_uri_match_template(Deref(resources[i].uri_template),
                                          RequestedUri.s).match
        /\ RequestedUri.s # S_system_status_uri)
           => /\ SuccessReply
              /\ Member(last.response, "result")
                     = ErrorPayload(S_Resource_not_found)

(* With a tool and a resource registered, a tools/call request for an
   unknown name has been answered with the Unknown tool payload. *)
C9_Witness ==
    /\ DispatchedRequestOf(S_tools_call)
    /\ tool_count >= 1
    /\ resource_count >= 1
    /\ RequestedTool.t = "string"
    /\ ~Occurs(ToolNames, RequestedTool.s)
    /\ Member(last.response, "result") = ErrorPayload(S_Unknown_tool)

(* The callback of a registered tool or resource returned NULL. *)
ReturnedNull(call) ==
    \/ call.kind = "tool" /\ call.ret = Absent
    \/ call.kind = "resource" /\ call.ret = NULL

(* C10, as stated: when the handler of a registered tool or resource has
   returned NULL for a request, the reply is a success envelope whose result
   is an error object, not a JSON-RPC error object. *)
C10_Original ==
    (DispatchedRequest /\ \E k \in DOMAIN last.invoked :
                              ReturnedNull(last.invoked[k]))
        => /\ SuccessReply
           /\ Member(Member(last.response, "result"), "error") # Absent

(* C10, amended: when the handler of a registered tool returns NULL, the
   request is answered with the JSON-RPC error -32603 "Internal error"
   carrying its id.  When the handler of a registered resource returns NULL
   the registration is passed over: the reply is a success envelope, with
   the contents produced by the next matching registration or by the
   built-in resource if there is one, and with the result
   {"error":"Resource not found"} if there is none. *)
C10_Amended ==
    DispatchedRequest =>
        /\ (\E k \in DOMAIN last.invoked :
                last.invoked[k].kind = "tool" /\ ReturnedNull(last.invoked[k]))
               => ErrorReply(-32603, S_Internal_error)
        /\ (\E k \in DOMAIN last.invoked :
                last.invoked[k].kind = "resource"
                /\ ReturnedNull(last.invoked[k]))
               => LET final == last.invoked[Len(last.invoked)]
                      result == Member(last.response, "result")
                  IN  /\ SuccessReply
                      /\ IF ReturnedNull(final)
                         THEN result = ErrorPayload(S_Resource_not_found)
                         ELSE /\ Len(Member(result, "contents").a) = 1
                              /\ Member(Member(result, "contents").a[1], "text")
                                     = JStr(final.ret.s)

(* A tools/call request has run the handler of a registered tool, the
   handler returned NULL, and the reply is the error -32603. *)
C10_Witness ==
    /\ DispatchedRequestOf(S_tools_call)
    /\ Len(last.invoked) = 1
    /\ last.invoked[1].kind = "tool"
    /\ ReturnedNull(last.invoked[1])
    /\ ErrorReply(-32603, S_Internal_error)

(* C11, as stated: a tools/call message runs the handler of a tool that was
   registered with an input schema only with arguments (an empty object
   when the message has none) that pass schema_validate_tool_arguments
   against that schema. *)
C11_Original ==
    \A k \in DOMAIN last.invoked :
        last.invoked[k].kind = "tool" =>
            \A i \in 1..tool_count :
                (/\ Deref(tools[i].name) = RequestedTool.s
                 /\ tools[i].handler = last.invoked[k].fn
                 /\ tools[i].input_schema # NULL)
                    => schema_validate_tool_arguments(
                           last.invoked[k].arg,
                           JDeref(tools[i].input_schema)).ret = ESP_OK

ListedTools == Member(Member(last.response, "result"), "tools")
ListedResources == Member(Member(last.response, "result"), "resources")

(* The member of a list entry that renders an optional string field. *)
Rendered(p) == IF p = NULL THEN Absent ELSE JStr(Deref(p))

(* C12: a tools/list request is answered with the registered tools, one
   entry per tool in registration order, when there is at least one, and
   with the single entry get_system_info when there is none; a
   resources/list request is answered with the registered resources in
   registration order when there is at least one, and with the single entry
   esp32://system/status when there is none. *)
C12_ListsNeverEmpty ==
    /\ DispatchedRequestOf(S_tools_list) =>
           /\ SuccessReply
           /\ ListedTools.t = "array"
           /\ IF tool_count > 0
              THEN /\ Len(ListedTools.a) = tool_count
                   /\ \A i \in 1..tool_count :
                          /\ Member(ListedTools.a[i], "name")
                                 = JStr(ToolNames[i])
                          /\ Member(ListedTools.a[i], "title")
                                 = Rendered(tools[i].title)
                          /\ Member(ListedTools.a[i], "description")
                                 = Rendered(tools[i].description)
              ELSE /\ Len(ListedTools.a) = 1
                   /\ Member(ListedTools.a[1], "name")
                          = JStr(S_get_system_info)
    /\ DispatchedRequestOf(S_resources_list) =>
           /\ SuccessReply
           /\ ListedResources.t = "array"
           /\ IF resource_count > 0
              THEN /\ Len(ListedResources.a) = resource_count
                   /\ \A i \in 1..resource_count :
                          /\ Member(ListedResources.a[i], "name")
                                 = JStr(ResourceNames[i])
                          /\ Member(ListedResources.a[i], "uri")
                                 = JStr(Deref(resources[i].uri_template))
                          /\ Member(ListedResources.a[i], "mimeType")
                                 = Rendered(resources[i].mime_type)
              ELSE /\ Len(ListedResources.a) = 1
                   /\ Member(ListedResources.a[1], "uri")
                          = JStr(S_system_status_uri)

(* With two tools registered, a tools/list request has been answered with
   two entries. *)
C12_Witness ==
    /\ DispatchedRequestOf(S_tools_list)
    /\ tool_count = 2
    /\ resource_count >= 1
    /\ Len(ListedTools.a) = 2

(* The slots whose template matches the URI, and the k-th of them in
   registration order. *)
MatchingResources(uri) ==
    {i \in 1..resource_count :
        esp_mcp_uri_match_template(Deref(resources[i].uri_template), uri).match}

NthMatching(uri, k) ==
    CHOOSE i \in MatchingResources(uri) :
        Cardinality({j \in MatchingResources(uri) : j < i}) = k - 1

IsHandlerOf(call, i) ==
    /\ call.kind = "resource"
    /\ call.fn = resources[i].handler
    /\ call.user_data = resources[i].user_data

DispatchedRead ==
    /\ Dispatched
    /\ HasMethod(last.arg)
    /\ Member(last.arg, "method").s = S_resources_read
    /\ RequestedUri.t = "string"

(* The calls of registered resource handlers among the callbacks invoked. *)
ResourceCalls == SelectSeq(last.invoked, LAMBDA c : c.kind = "resource")

(* C13, as stated: for a resources/read message, every resource handler
   invoked is that of the earliest-registered resource whose template
   matches the URI. *)
C13_Original ==
    DispatchedRead =>
        \A k \in DOMAIN ResourceCalls :
            /\ MatchingResources(RequestedUri.s) # {}
            /\ IsHandlerOf(ResourceCalls[k], NthMatching(RequestedUri.s, 1))

(* C13, amended: for a resources/read message the handlers of the resources
   whose template matches the URI are invoked in registration order, and
   the walk ends with the first that returns a text: the k-th handler
   invoked is that of the k-th matching resource, every handler invoked
   before the last returned NULL, and a handler that returned NULL is
   followed by the handler of the next matching resource when there is
   one. *)
C13_Amended ==
    DispatchedRead =>
        LET n == Len(ResourceCalls)
            matching == MatchingResources(RequestedUri.s)
        IN  /\ n <= Cardinality(matching)
            /\ \A k \in 1..n :
                   /\ IsHandlerOf(ResourceCalls[k],
                                  NthMatching(RequestedUri.s, k))
                   /\ k < n => ResourceCalls[k].ret = NULL
            /\ (n = 0 \/ ResourceCalls[n].ret = NULL)
                   => n = Cardinality(matching)

(* Two registered resources match the URI read, the handler of the first
   returned NULL and the handler of the second was invoked after it. *)
C13_Witness ==
    /\ DispatchedRead
    /\ Cardinality(MatchingResources(RequestedUri.s)) = 2
    /\ Len(ResourceCalls) = 2
    /\ ResourceCalls[1].ret = NULL
    /\ IsHandlerOf(ResourceCalls[2], NthMatching(RequestedUri.s, 2))

(* C14: jsonrpc_parse_message classifies a document whose jsonrpc member is
   "2.0" by the first of these rules that applies: a request when method is
   a string and there is an id, a notification when method is a string and
   there is no id, a response when there is a result, an error response
   when there is an error, and otherwise it fails. *)
C14_Classification ==
    (last.op = "parse" /\ Member(last.arg, "jsonrpc") = JStr(S_2_0)) =>
        LET id == Member(last.arg, "id")
            method == Member(last.arg, "method")
            result == Member(last.arg, "result")
            error == Member(last.arg, "error")
            Classified(type) == last.out.ok /\ last.out.type = type
        IN  IF method.t = "string" /\ id # Absent
            THEN Classified(JSONRPC_REQUEST)
            ELSE IF method.t = "string"
            THEN Classified(JSONRPC_NOTIFICATION)
            ELSE IF result # Absent
            THEN Classified(JSONRPC_RESPONSE)
            ELSE IF error # Absent
            THEN Classified(JSONRPC_ERROR)
            ELSE ~last.out.ok

(* A document with a null id, a method, a result and an error has been
   classified a request. *)
C14_Witness ==
    /\ last.op = "parse"
    /\ Member(last.arg, "jsonrpc") = JStr(S_2_0)
    /\ Member(last.arg, "id") = JNull
    /\ Member(last.arg, "method").t = "string"
    /\ Member(last.arg, "result") # Absent
    /\ Member(last.arg, "error") # Absent
    /\ last.out.ok
    /\ last.out.type = JSONRPC_REQUEST

(* A JSON document whose jsonrpc member is absent, not a string or not
   "2.0". *)
BadVersion(json) == json # Unparseable /\ Member(json, "jsonrpc") # JStr(S_2_0)

(* C15: a message whose jsonrpc member is absent, not a string or not "2.0"
   is answered with a JSON-RPC error of code -32700 or -32600; no method
   handler and no callback is called for it, and the server context, which
   is all that the answer to a later message is computed from, is left as
   it was. *)
C15_BadVersionRejected ==
    [][(last'.op = "dispatch" /\ BadVersion(last'.arg)) =>
          /\ Member(Member(last'.response, "error"), "code")
                 \in {JNum(-32700), JNum(-32600)}
          /\ Member(last'.response, "result") = Absent
          /\ last'.handler = NULL_FN
          /\ last'.invoked = <<>>
          /\ UNCHANGED <<tools, tool_count, tool_capacity, resources,
                         resource_count, resource_capacity, active_sessions,
                         http_server, callerBuf, callerJson>>
      ]_vars

(* With a tool registered, a ping request marked jsonrpc "1.0" has been
   answered with a parse error. *)
C15_Witness ==
    /\ Dispatched
    /\ tool_count >= 1
    /\ Member(last.arg, "jsonrpc") = JStr(<<"1", ".", "0">>)
    /\ Member(last.arg, "method") = JStr(S_ping)
    /\ Member(Member(last.response, "error"), "code") = JNum(-32700)

(* What a JSON value or its absence is rendered as. *)
OrNull(v) == IF v = Absent THEN JNull ELSE v

(* C16: jsonrpc_parse_message applied to the string jsonrpc_create_response
   returns for an id and a result succeeds and yields a response whose
   result and id equal those given, null standing for an absent one. *)
C16_RoundTrip ==
    last.op = "render" =>
        /\ last.out.ok
        /\ last.out.type = JSONRPC_RESPONSE
        /\ last.out.result = OrNull(last.arg.result)
        /\ last.out.id = OrNull(last.arg.id)

(* A response with no id and an object result that has members named
   method and id has been rendered and parsed back. *)
C16_Witness ==
    /\ last.op = "render"
    /\ last.arg.id = Absent
    /\ Member(last.arg.result, "method") # Absent
    /\ last.out.ok
    /\ last.out.id = JNull

ErrorCode == Member(Member(last.response, "error"), "code")

(* The side-channel marker of the result a tool handler returned. *)
MarkerOf(call) ==
    IF call.kind = "tool" THEN Member(call.ret, "_jsonrpc_error") ELSE Absent

(* C17: the code of every JSON-RPC error object returned is one of -32700,
   -32600, -32601, -32602 and -32603; -32602 is returned only when the
   result of the method handler carries the marker invalid_params, and a
   result carrying any other string as marker is answered with -32603. *)
C17_ErrorCodes ==
    /\ (Dispatched /\ Member(last.response, "error") # Absent) =>
           /\ ErrorCode \in {JNum(-32700), JNum(-32600), JNum(-32601),
                             JNum(-32602), JNum(-32603)}
           /\ ErrorCode = JNum(-32602) =>
                  \E k \in DOMAIN last.invoked :
                      MarkerOf(last.invoked[k]) = JStr(S_invalid_params)
    /\ (DispatchedRequest /\ \E k \in DOMAIN last.invoked :
                                 /\ MarkerOf(last.invoked[k]).t = "string"
                                 /\ MarkerOf(last.invoked[k])
                                        # JStr(S_invalid_params))
           => ErrorCode = JNum(-32603)

(* A tool handler returned a result whose marker is another string and the
   request has been answered with -32603. *)
C17_Witness ==
    /\ DispatchedRequestOf(S_tools_call)
    /\ Len(last.invoked) = 1
    /\ MarkerOf(last.invoked[1]) = JStr(N_zz)
    /\ ErrorCode = JNum(-32603)

(* Vocabulary of the properties of URI matching: the segments of a string
   are its maximal runs of characters other than '/'. *)

SegmentStarts(s) ==
    {i \in 1..Len(s) : s[i] # "/" /\ (i = 1 \/ s[i - 1] = "/")}

SegmentCount(s) == Cardinality(SegmentStarts(s))

Segment(s, k) ==
    LET first == CHOOSE i \in SegmentStarts(s) :
                     Cardinality({j \in SegmentStarts(s) : j < i}) = k - 1
        final == CHOOSE j \in first..Len(s) :
                     /\ \A m \in first..j : s[m] # "/"
                     /\ (j = Len(s) \/ s[j + 1] = "/")
    IN  SubSeq(s, first, final)

IsPlaceholder(segment) ==
    /\ Len(segment) >= 3
    /\ segment[1] = "{"
    /\ segment[Len(segment)] = "}"

PlaceholderName(segment) == SubSeq(segment, 2, Len(segment) - 1)

Matched == last.op = "match"

(* C18, as stated: when the template and the URI have the same number of
   segments, at least one, and every segment of the template that is not a
   placeholder equals the segment of the URI at its position, the match
   succeeds and the mapping returned binds the name of each placeholder of
   the template to the segment of the URI at its position, and nothing
   else. *)
C18_Original ==
    LET template_uri == last.arg.template_uri
        actual_uri == last.arg.actual_uri
        n == SegmentCount(template_uri)
    IN  (/\ Matched
         /\ n >= 1
         /\ n = SegmentCount(actual_uri)
         /\ \A k \in 1..n :
                IsPlaceholder(Segment(template_uri, k))
                \/ Segment(template_uri, k) = Segment(actual_uri, k))
            => /\ last.out.match
               /\ \A k \in 1..n :
                      IsPlaceholder(Segment(template_uri, k)) =>
                          \E p \in DOMAIN last.out.params :
                              /\ last.out.params[p].name
                                     = PlaceholderName(Segment(template_uri, k))
                              /\ last.out.params[p].value
                                     = Segment(actual_uri, k)
               /\ \A p \in DOMAIN last.out.params :
                      \E k \in 1..n :
                          /\ IsPlaceholder(Segment(template_uri, k))
                          /\ last.out.params[p].name
                                 = PlaceholderName(Segment(template_uri, k))
                          /\ last.out.params[p].value = Segment(actual_uri, k)

(* C19, as stated: when the template and the URI differ in their number of
   segments, or one of them has no segment, the result is no match and no
   mapping. *)
C19_Original ==
    (/\ Matched
     /\ \/ SegmentCount(last.arg.template_uri)
               # SegmentCount(last.arg.actual_uri)
        \/ SegmentCount(last.arg.template_uri) = 0
        \/ SegmentCount(last.arg.actual_uri) = 0)
        => /\ ~last.out.match
           /\ last.out.params = Absent

(* Vocabulary of the properties of schema validation. *)

Validated == last.op = "validate"

IsNumericSchema(schema) ==
    /\ Member(schema, "type") \in {JStr(S_integer), JStr(S_number)}
    /\ Member(schema, "minimum").t \in {"absent", "number"}
    /\ Member(schema, "maximum").t \in {"absent", "number"}

InRange(v, schema) ==
    /\ v.t = "number"
    /\ Member(schema, "minimum") # Absent => v.n >= Member(schema, "minimum").n
    /\ Member(schema, "maximum") # Absent => v.n <= Member(schema, "maximum").n

OutOfRange(v, schema) == v.t = "number" /\ ~InRange(v, schema)

(* The data is an object with a boolean state whose pin breaks the bounds
   of the numeric schema the object schema gives for pin. *)
PinOutOfRange(data, schema) ==
    /\ Member(schema, "type") = JStr(S_object)
    /\ IsNumericSchema(Member(Member(schema, "properties"), "pin"))
    /\ Member(Member(Member(schema, "properties"), "state"), "type")
           = JStr(S_boolean)
    /\ Member(data, "state").t = "bool"
    /\ OutOfRange(Member(data, "pin"),
                  Member(Member(schema, "properties"), "pin"))

(* C20, as stated: under an integer or number schema, validation succeeds
   exactly when the value is a number within the bounds the schema gives,
   both inclusive; a number outside them is reported as OUT_OF_RANGE with
   the dotted path of the field, root for the value validated and root.pin
   for the property pin of that value. *)
C20_Original ==
    /\ (Validated /\ IsNumericSchema(last.arg.schema)) =>
           /\ last.out.result.ret = ESP_OK
                  <=> InRange(last.arg.data, last.arg.schema)
           /\ OutOfRange(last.arg.data, last.arg.schema) =>
                  /\ last.out.result.error = SCHEMA_VALIDATION_OUT_OF_RANGE
                  /\ last.out.path = S_root
    /\ (Validated /\ PinOutOfRange(last.arg.data, last.arg.schema)) =>
           /\ last.out.result.ret = ESP_FAIL
           /\ last.out.result.error = SCHEMA_VALIDATION_OUT_OF_RANGE
           /\ last.out.path = S_root \o <<".">> \o Spelled["pin"]

(* Vocabulary of the properties of object validation. *)

IsObjectSchema(schema) == Member(schema, "type") = JStr(S_object)

(* The names the required array of the schema lists. *)
RequiredNames(schema) ==
    IF Member(schema, "required").t = "array"
    THEN {Member(schema, "required").a[i].s :
              i \in {j \in DOMAIN Member(schema, "required").a :
                         Member(schema, "required").a[j].t = "string"}}
    ELSE {}

HasKey(data, name) ==
    data.t = "object" /\ \E k \in DOMAIN data.m : Spelled[k] = name

MissingNames(data, schema) ==
    {name \in RequiredNames(schema) : ~HasKey(data, name)}

Outcome(result) ==
    [ret |-> result.ret, error |-> result.error,
     error_message |-> result.error_message]

(* C21, as stated: under an object schema, with or without properties, an
   object that lacks a name the schema lists as required fails validation
   with MISSING_REQUIRED and a message that names a missing field, so that
   validation succeeds only when every required name is a key. *)
C21_Original ==
    (/\ Validated
     /\ IsObjectSchema(last.arg.schema)
     /\ last.arg.data.t = "object"
     /\ MissingNames(last.arg.data, last.arg.schema) # {}) =>
        /\ last.out.result.ret = ESP_FAIL
        /\ last.out.result.error = SCHEMA_VALIDATION_MISSING_REQUIRED
        /\ \E name \in MissingNames(last.arg.data, last.arg.schema) :
               last.out.result.error_message
                   = S_Missing_required_field \o name

(* The keys of the data that the properties of the schema declare. *)
DeclaredKeys(data, schema) ==
    IF data.t = "object" /\ Member(schema, "properties").t = "object"
    THEN DOMAIN data.m \cap DOMAIN Member(schema, "properties").m
    ELSE {}

(* The keys of the data that the required array of the schema names. *)
RequiredKeys(data, schema) ==
    IF data.t = "object"
    THEN {k \in DOMAIN data.m : Spelled[k] \in RequiredNames(schema)}
    ELSE {}

(* The object without the members whose key is not in keep, the others in
   the order they had. *)
Without(data, keep) ==
    Ordered(JObj([k \in DOMAIN data.m \cap keep |-> data.m[k]]),
            SelectSeq(Keys(data), LAMBDA k : k \in keep))

IsPrefix(p, s) == Len(p) <= Len(s) /\ SubSeq(s, 1, Len(p)) = p

(* A violation found in a member was found under the path of a declared
   key of the data: root.<key>, or a path below it. *)
FoundUnderDeclaredKey ==
    last.out.result.error_path.k = "frame" =>
        \E k \in DeclaredKeys(last.arg.data, last.arg.schema) :
            IsPrefix(S_root \o <<".">> \o Spelled[k],
                     last.out.result.error_path.s)

(* C22, as stated: the members of an object that no property of the schema
   declares never change the outcome of validation, whatever their values:
   the object validates as it does without them, and a violation in a
   member is found at the path extended with the key of a declared
   member. *)
C22_Original ==
    (Validated /\ last.arg.data.t = "object") =>
        /\ Outcome(last.out.result)
               = Outcome(schema_validate(
                             Without(last.arg.data,
                                     DeclaredKeys(last.arg.data,
                                                  last.arg.schema)),
                             last.arg.schema))
        /\ FoundUnderDeclaredKey

(* C22, amended: the members of an object that no property of the schema
   declares and the required array does not name never change the outcome
   of validation, whatever their values; no undeclared member makes an
   object fail that validates without it; and a violation in a member is
   found by validating it with the path extended with the key of a declared
   member. *)
C22_Amended ==
    (Validated /\ last.arg.data.t = "object") =>
        /\ Outcome(last.out.result)
               = Outcome(schema_validate(
                             Without(last.arg.data,
                                     DeclaredKeys(last.arg.data,
                                                  last.arg.schema)
                                     \cup RequiredKeys(last.arg.data,
                                                       last.arg.schema)),
                             last.arg.schema))
        /\ schema_validate(Without(last.arg.data,
                                   DeclaredKeys(last.arg.data,
                                                last.arg.schema)),
                           last.arg.schema).ret = ESP_OK
               => last.out.result.ret = ESP_OK
        /\ FoundUnderDeclaredKey

(* An object has failed validation in a declared member while it had a
   member that nothing declares or requires. *)
C22_Witness ==
    /\ Validated
    /\ last.arg.data.t = "object"
    /\ last.out.result.ret = ESP_FAIL
    /\ last.out.result.error_path.k = "frame"
    /\ DOMAIN last.arg.data.m
           \ (DeclaredKeys(last.arg.data, last.arg.schema)
              \cup RequiredKeys(last.arg.data, last.arg.schema)) # {}

ValidatedArguments == last.op = "validate_tool_arguments"

(* C23, as stated: schema_validate_tool_arguments succeeds for any
   arguments, present or absent, when the schema is absent; with a schema
   and no arguments it gives what validating the empty object against the
   schema gives, so that a schema that lists required names refuses absent
   arguments with MISSING_REQUIRED; and otherwise it gives what
   schema_validate gives for the arguments and the schema. *)
C23_Original ==
    ValidatedArguments =>
        /\ last.arg.input_schema = Absent =>
               /\ last.out.result.ret = ESP_OK
               /\ last.out.result.error = SCHEMA_VALIDATION_OK
        /\ (last.arg.input_schema # Absent /\ last.arg.arguments = Absent) =>
               /\ Outcome(last.out.result)
                      = Outcome(schema_validate(ObjectOf({}),
                                                last.arg.input_schema))
               /\ RequiredNames(last.arg.input_schema) # {} =>
                      /\ last.out.result.ret = ESP_FAIL
                      /\ last.out.result.error
                             = SCHEMA_VALIDATION_MISSING_REQUIRED
        /\ (last.arg.input_schema # Absent /\ last.arg.arguments # Absent) =>
               Outcome(last.out.result)
                   = Outcome(schema_validate(last.arg.arguments,
                                             last.arg.input_schema))

(* Vocabulary of the properties of stopping and starting. *)

Stopped == last.op = "stop" /\ last.handle /\ last.ret = ESP_OK
Started == last.op = "start" /\ last.ret = ESP_OK

(* C24, as stated: esp_mcp_server_stop stops the HTTP service and nothing
   else, so that the context and every registered tool and resource are
   what they were, and a later esp_mcp_server_start that succeeds finds
   them as they were before the stop. *)
C24_Original ==
    [][/\ Stopped' =>
              /\ ~http_server'
              /\ UNCHANGED <<tools, tool_count, tool_capacity, resources,
                             resource_count, resource_capacity,
                             active_sessions>>
       /\ (Stopped /\ Started') =>
              /\ http_server'
              /\ UNCHANGED <<tools, tool_count, tool_capacity, resources,
                             resource_count, resource_capacity,
                             active_sessions>>
      ]_vars

(* C25: dispatching a message, valid or not, leaves both tables and both
   counts as they were, and the reply, the method handler called and the
   callbacks invoked are what the engine gives for the registry as it is,
   the message and what the callbacks return, whatever was dispatched or
   registered before; a request for initialize is answered with a
   result. *)
C25_PureFunction ==
    Dispatched =>
        /\ last.before = registry
        /\ \E in \in DispatchInputs :
               /\ in[1] = last.arg
               /\ jsonrpc_process_request(in[1], mcp_methods, in[2])
                      = Processed(last.response, last.handler, last.invoked)
        /\ DispatchedRequestOf(S_initialize) => SuccessReply

(* On a full registry a tools/call request has been answered with what the
   callback of a registered tool returned. *)
C25_Witness ==
    /\ DispatchedRequestOf(S_tools_call)
    /\ tool_count = MaxTools
    /\ resource_count = MaxResources
    /\ Len(last.invoked) = 1
    /\ last.invoked[1].ret # Absent
    /\ Member(last.response, "result") = last.invoked[1].ret

(* C26, as stated: an inbound JSON array of JSON-RPC requests is answered
   with the array of the replies its elements get, one for each element,
   in order. *)
C26_Original ==
    (Dispatched /\ last.arg.t = "array") =>
        /\ last.response.t = "array"
        /\ Len(last.response.a) = Len(last.arg.a)
        /\ \A i \in DOMAIN last.arg.a :
               last.response.a[i]
                   = jsonrpc_process_request(last.arg.a[i], mcp_methods,
                                             NoRets).response

(* The type of the schema node is missing, is not a string, or is not one
   of the five the validator knows. *)
Untyped(schema) ==
    \/ Member(schema, "type").t # "string"
    \/ Member(schema, "type").s
           \notin {S_string, S_integer, S_number, S_boolean, S_object}

(* The keys of the data whose declared property schema is untyped. *)
UntypedKeys(data, schema) ==
    {k \in DeclaredKeys(data, schema) :
         Untyped(Member(schema, "properties").m[k])}

(* The object is validated under an object schema with properties. *)
ValidatedObject ==
    /\ Validated
    /\ IsObjectSchema(last.arg.schema)
    /\ Member(last.arg.schema, "properties").t = "object"
    /\ last.arg.data.t = "object"

(* C27, as stated: an untyped schema makes validation fail with
   INVALID_SCHEMA for every value, and so does an untyped property schema
   for every object that has the key of the property. *)
C27_Original ==
    /\ (Validated /\ Untyped(last.arg.schema)) =>
           /\ last.out.result.ret = ESP_FAIL
           /\ last.out.result.error = SCHEMA_VALIDATION_INVALID_SCHEMA
    /\ (/\ ValidatedObject
        /\ UntypedKeys(last.arg.data, last.arg.schema) # {}) =>
           /\ last.out.result.ret = ESP_FAIL
           /\ last.out.result.error = SCHEMA_VALIDATION_INVALID_SCHEMA

(* The positions in the order of the members of the data. *)
Position(data, k) == CHOOSE i \in DOMAIN Keys(data) : Keys(data)[i] = k

(* Every declared member of the data that comes before an untyped one
   satisfies the schema of its property. *)
SoundBeforeUntyped(data, schema) ==
    \E k \in UntypedKeys(data, schema) :
        \A j \in DeclaredKeys(data, schema) :
            Position(data, j) < Position(data, k) =>
                schema_validate(data.m[j],
                                Member(schema, "properties").m[j]).ret
                    = ESP_OK

(* C27, amended: an untyped schema makes validation fail with
   INVALID_SCHEMA for every value; an untyped property schema makes every
   object that has the key of the property fail, with INVALID_SCHEMA when
   the object has every required name and its declared members before
   that key satisfy their schemas, and otherwise with the violation that
   is met first. *)
C27_Amended ==
    /\ (Validated /\ Untyped(last.arg.schema)) =>
           /\ last.out.result.ret = ESP_FAIL
           /\ last.out.result.error = SCHEMA_VALIDATION_INVALID_SCHEMA
    /\ (/\ ValidatedObject
        /\ UntypedKeys(last.arg.data, last.arg.schema) # {}) =>
           /\ last.out.result.ret = ESP_FAIL
           /\ (/\ MissingNames(last.arg.data, last.arg.schema) = {}
               /\ SoundBeforeUntyped(last.arg.data, last.arg.schema)) =>
                  last.out.result.error = SCHEMA_VALIDATION_INVALID_SCHEMA

(* An object that has every required name has been refused with
   INVALID_SCHEMA for a member whose property schema is untyped. *)
C27_Witness ==
    /\ ValidatedObject
    /\ UntypedKeys(last.arg.data, last.arg.schema) # {}
    /\ RequiredNames(last.arg.schema) # {}
    /\ MissingNames(last.arg.data, last.arg.schema) = {}
    /\ last.out.result.error = SCHEMA_VALIDATION_INVALID_SCHEMA
    /\ last.out.result.error_path.k = "frame"

(* The positions of the required array whose name the data lacks. *)
MissingPositions(data, schema) ==
    IF Member(schema, "required").t = "array"
    THEN {i \in DOMAIN Member(schema, "required").a :
              /\ Member(schema, "required").a[i].t = "string"
              /\ ~HasKey(data, Member(schema, "required").a[i].s)}
    ELSE {}

(* The declared members of the data that break the schema of their
   property, by their positions in the data. *)
BrokenPositions(data, schema) ==
    {i \in DOMAIN Keys(data) :
         /\ Keys(data)[i] \in DeclaredKeys(data, schema)
         /\ schema_validate(data.m[Keys(data)[i]],
                            Member(schema, "properties").m[Keys(data)[i]]).ret
                # ESP_OK}

Least(positions) == CHOOSE i \in positions : \A j \in positions : i <= j

(* The characters a path pointer was set to point to. *)
PathSet(error_path) ==
    IF error_path.k = "frame" THEN error_path.s ELSE Deref(error_path)

(* The violation of the member at position i of the data, found when the
   member is validated under the path root.<key>. *)
MemberViolation(data, schema, i) ==
    LET key == Keys(data)[i]
        found == schema_validate(data.m[key],
                                 Member(schema, "properties").m[key])
    IN  [error |-> found.error,
         error_message |-> found.error_message,
         path |-> S_root \o <<".">> \o Spelled[key]
                      \o SubSeq(PathSet(found.error_path), Len(S_root) + 1,
                                Len(PathSet(found.error_path)))]

(* C28, as stated: validation of an object under a schema with properties
   reports the first violation and nothing after it: the first name of the required array, in the order of
   the array, that the object lacks, before any member is validated; else
   the violation of the first member, in the order of the object, that
   breaks the schema of its property; the kind, the message and the path
   reported are those of that violation. *)
C28_Original ==
    ValidatedObject =>
        LET data == last.arg.data
            schema == last.arg.schema
            missing == MissingPositions(data, schema)
            broken == BrokenPositions(data, schema)
        IN  IF missing # {}
            THEN /\ last.out.result.ret = ESP_FAIL
                 /\ last.out.result.error = SCHEMA_VALIDATION_MISSING_REQUIRED
                 /\ last.out.result.error_message
                        = S_Missing_required_field
                              \o Member(schema, "required").a[Least(missing)].s
                 /\ last.out.path = S_root
            ELSE IF broken # {}
            THEN LET first == MemberViolation(data, schema, Least(broken))
                 IN  /\ last.out.result.ret = ESP_FAIL
                     /\ last.out.result.error = first.error
                     /\ last.out.result.error_message = first.error_message
                     /\ last.out.path = first.path
            ELSE last.out.result.ret = ESP_OK

(* A tools/call request without a string params.name, or a resources/read
   request without a string params.uri. *)
LacksTarget ==
    \/ DispatchedRequestOf(S_tools_call) /\ RequestedTool.t # "string"
    \/ DispatchedRequestOf(S_resources_read) /\ RequestedUri.t # "string"

(* C29, as stated: a tools/call request with no params or no string
   params.name, and a resources/read request with no params or no string
   params.uri, is answered with the error -32602 "Invalid params" carrying
   the id of the request, and no callback is invoked. *)
C29_Original ==
    LacksTarget =>
        /\ ErrorReply(JSONRPC_INVALID_PARAMS, S_Invalid_params)
        /\ last.invoked = <<>>

DispatchedCall ==
    /\ Dispatched
    /\ HasMethod(last.arg)
    /\ Member(last.arg, "method").s = S_tools_call
    /\ RequestedTool.t = "string"

RequestedArguments == Member(Member(last.arg, "params"), "arguments")

(* C30: a tools/call message naming a registered tool invokes the handler
   of that tool, and nothing else, with params.arguments as given, or NULL
   when there are none, and with the user_data of its registration, even
   when the name is get_system_info; the name get_system_info, when no
   tool is registered under it, invokes the built-in tool and nothing
   else; any other name invokes nothing, and a request for it is answered
   with the Unknown tool payload.  The names of the registered tools are
   distinct. *)
C30_Resolution ==
    DispatchedCall =>
        /\ Distinct(ToolNames)
        /\ IF Occurs(ToolNames, RequestedTool.s)
           THEN /\ Len(last.invoked) = 1
                /\ last.invoked[1].kind = "tool"
                /\ last.invoked[1].arg = RequestedArguments
                /\ \E i \in 1..tool_count :
                       /\ ToolNames[i] = RequestedTool.s
                       /\ last.invoked[1].fn = tools[i].handler
                       /\ last.invoked[1].user_data = tools[i].user_data
           ELSE IF RequestedTool.s = S_get_system_info
           THEN /\ Len(last.invoked) = 1
                /\ last.invoked[1].kind = "builtin_tool"
                /\ last.invoked[1].arg = RequestedArguments
                /\ DispatchedRequest =>
                       /\ SuccessReply
                       /\ Member(last.response, "result")
                              = last.invoked[1].ret
           ELSE /\ last.invoked = <<>>
                /\ DispatchedRequest =>
                       /\ SuccessReply
                       /\ Member(last.response, "result")
                              = ErrorPayload(S_Unknown_tool)

(* With two tools registered, one of them under the name get_system_info,
   a tools/call message for get_system_info has invoked the handler of the
   registered tool. *)
C30_Witness ==
    /\ DispatchedCall
    /\ tool_count = 2
    /\ RequestedTool.s = S_get_system_info
    /\ Occurs(ToolNames, S_get_system_info)
    /\ Len(last.invoked) = 1
    /\ last.invoked[1].kind = "tool"

-----------------------------------------------------------------------------
(* The message layer echoes the id *)

(* The message that was given to the entry point is one that
   jsonrpc_parse_message accepts, and it has an id. *)
ParsedWithId ==
    /\ Dispatched
    /\ jsonrpc_parse_message(last.arg).ok
    /\ Member(last.arg, "id") # Absent

(* C31, as stated: every reply to a message that jsonrpc_parse_message
   accepts and that has an id carries that id, whether the reply is a
   success envelope, Method not found, Internal error, Invalid params or
   the Invalid request given to a Response or an ErrorResponse; a reply
   with the id null to a message whose id is not null answers a message
   that did not parse. *)
C31_Original ==
    /\ (ParsedWithId /\ last.response # Absent) =>
           Member(last.response, "id") = Member(last.arg, "id")
    /\ (/\ Dispatched
        /\ last.response # Absent
        /\ Member(last.response, "id") = JNull
        /\ ~(last.arg.t = "object" /\ Member(last.arg, "id") = JNull)) =>
           ~jsonrpc_parse_message(last.arg).ok

-----------------------------------------------------------------------------
(* Listing and calling *)

ProbeNames == {N_a, N_b, N_zz, S_get_system_info}
ProbeUris == {U_literal, U_other, U_longer, S_system_status_uri}

(* tools/call for this name invokes a handler. *)
Resolved(name) ==
    handle_call_tool(ObjectOf({<<"name", JStr(name)>>}), JNum(1),
                     [tool |-> ObjectOf({}), resource |-> <<>>]).invoked
        # <<>>

CallableNames == {name \in ProbeNames : Resolved(name)}

(* The names tools/list returns in the present state. *)
ListedNames ==
    LET listed == Member(handle_list_tools(Absent, JNum(1), NoRets).result,
                         "tools").a
    IN  {Member(listed[i], "name").s : i \in 1..Len(listed)}

(* What resources/read yields for this URI when the handlers of the
   registered resources return rets. *)
ReadResult(uri, rets) ==
    handle_read_resource(ObjectOf({<<"uri", JStr(uri)>>}), JNum(1),
                         [tool |-> Absent, resource |-> rets]).result

(* resources/read can serve this URI: some returns of the handlers make
   it answer with contents. *)
Served(uri) ==
    \E rets \in [1..resource_count -> ResourceReturns] :
        Member(ReadResult(uri, rets), "contents") # Absent

(* The URIs resources/list returns in the present state. *)
ListedUris ==
    LET listed == Member(handle_list_resources(Absent, JNum(1),
                                               NoRets).result,
                         "resources").a
    IN  {Member(listed[i], "uri").s : i \in 1..Len(listed)}

(* C32, as stated: in every state of the registry the names tools/call
   resolves to a handler are the names tools/list returns, and
   resources/read serves the built-in status URI only when resources/list
   returns it. *)
C32_Original ==
    /\ CallableNames = ListedNames
    /\ Served(S_system_status_uri) => S_system_status_uri \in ListedUris

(* C32, amended: in every state of the registry the names tools/call
   resolves to a handler are the names tools/list returns together with
   get_system_info, which tools/list returns only when no tool is
   registered or a tool is registered under that name; resources/read
   serves the built-in status URI in every state, whatever the handlers of
   the registered resources return, while resources/list returns it only
   when no resource is registered or one is registered under that URI; and
   every URI without placeholders that resources/list returns can be
   served. *)
C32_Amended ==
    /\ CallableNames = ListedNames \cup {S_get_system_info}
    /\ S_get_system_info \in ListedNames
           <=> (tool_count = 0 \/ Occurs(ToolNames, S_get_system_info))
    /\ \A rets \in [1..resource_count -> ResourceReturns] :
           Member(ReadResult(S_system_status_uri, rets), "contents") # Absent
    /\ S_system_status_uri \in ListedUris
           <=> \/ resource_count = 0
               \/ \E i \in 1..resource_count :
                      Deref(resources[i].uri_template) = S_system_status_uri
    /\ \A uri \in ListedUris \cap ProbeUris : Served(uri)

(* With a tool registered and none under the name get_system_info, so that
   tools/list does not return that name, a tools/call request for
   get_system_info has invoked the built-in tool. *)
C32_Witness ==
    /\ DispatchedRequestOf(S_tools_call)
    /\ tool_count >= 1
    /\ ~Occurs(ToolNames, S_get_system_info)
    /\ S_get_system_info \notin ListedNames
    /\ RequestedTool = JStr(S_get_system_info)
    /\ Len(last.invoked) = 1
    /\ last.invoked[1].kind = "builtin_tool"

-----------------------------------------------------------------------------
(* What a tool handler returns and the reply *)

(* A tools/call request has invoked the handler of a registered tool, and
   the handler returned a value. *)
ToolReturned ==
    /\ DispatchedRequestOf(S_tools_call)
    /\ Len(last.invoked) = 1
    /\ last.invoked[1].kind = "tool"
    /\ last.invoked[1].ret # Absent

ReturnedValue == last.invoked[1].ret

(* C33, as stated: whatever value the handler of a registered tool
   returns, the reply to the tools/call request is a success envelope whose
   result is that value. *)
C33_Original ==
    ToolReturned =>
        /\ SuccessReply
        /\ Member(last.response, "result") = ReturnedValue

(* C33, amended: the reply to the tools/call request is a success envelope
   whose result is the value the handler returned, unless that value is an
   object with a string member _jsonrpc_error.  Such a value is answered
   with a JSON-RPC error object carrying the id of the request: its code is
   -32602 when the member is invalid_params and -32603 otherwise, its
   message is the member message of the value when that is a string and
   Invalid params or Internal error otherwise, and its data is the member
   data of the value, if any. *)
C33_Amended ==
    ToolReturned =>
        LET marker == Member(ReturnedValue, "_jsonrpc_error")
            message == Member(ReturnedValue, "message")
            invalid == marker = JStr(S_invalid_params)
        IN  IF marker.t = "string"
            THEN /\ ErrorReply(IF invalid THEN -32602 ELSE -32603,
                               IF message.t = "string" THEN message.s
                               ELSE IF invalid THEN S_Invalid_params
                               ELSE S_Internal_error)
                 /\ Member(Member(last.response, "error"), "data")
                        = Member(ReturnedValue, "data")
            ELSE /\ SuccessReply
                 /\ Member(last.response, "result") = ReturnedValue

(* The handler of a registered tool has returned a value with the marker
   invalid_params and with data, and the request has been answered with
   the error -32602 carrying the data. *)
C33_Witness ==
    /\ ToolReturned
    /\ Member(ReturnedValue, "_jsonrpc_error") = JStr(S_invalid_params)
    /\ Member(ReturnedValue, "data") # Absent
    /\ ErrorCode = JNum(-32602)
    /\ Member(Member(last.response, "error"), "data")
           = Member(ReturnedValue, "data")

-----------------------------------------------------------------------------
(* What jsonrpc_parse_message accepts and jsonrpc_validate_message *)

(* jsonrpc_parse_message has accepted a text. *)
Accepted == last.op \in {"parse", "render"} /\ last.out.ok

(* C34, as stated: every message jsonrpc_parse_message accepts satisfies
   jsonrpc_validate_message. *)
C34_Original ==
    Accepted => jsonrpc_validate_message(last.out)

(* C34, amended: every Request and every Notification that
   jsonrpc_parse_message accepts satisfies jsonrpc_validate_message; a
   Response and an ErrorResponse is accepted with or without an id, and
   satisfies jsonrpc_validate_message exactly when it has one. *)
C34_Amended ==
    Accepted =>
        /\ last.out.type \in {JSONRPC_REQUEST, JSONRPC_NOTIFICATION} =>
               jsonrpc_validate_message(last.out)
        /\ last.out.type \in {JSONRPC_RESPONSE, JSONRPC_ERROR} =>
               (jsonrpc_validate_message(last.out) <=> last.out.id # Absent)
        /\ last.op = "parse" => last.out.id = Member(last.arg, "id")

(* A document with a result and no id has been accepted as a Response, and
   jsonrpc_validate_message rejects it. *)
C34_Witness ==
    /\ last.op = "parse"
    /\ last.out.ok
    /\ last.out.type = JSONRPC_RESPONSE
    /\ Member(last.arg, "id") = Absent
    /\ ~jsonrpc_validate_message(last.out)

-----------------------------------------------------------------------------
(* Empty segments *)

(* s with a '/' put in before position i (behind the end for
   i = Len(s) + 1). *)
WithSlash(s, i) == SubSeq(s, 1, i - 1) \o <<"/">> \o SubSeq(s, i, Len(s))

(* s without the character at position i. *)
WithoutChar(s, i) == SubSeq(s, 1, i - 1) \o SubSeq(s, i + 1, Len(s))

(* The strings got from s by putting in a leading, a trailing or a
   repeated '/', and by taking out a leading or a trailing '/' or one of
   two adjacent ones. *)
SlashEdits(s) ==
    {WithSlash(s, 1), WithSlash(s, Len(s) + 1)}
    \cup {WithSlash(s, i) : i \in {j \in 1..Len(s) : s[j] = "/"}}
    \cup {WithoutChar(s, i) :
            i \in {j \in 1..Len(s) :
                     /\ s[j] = "/"
                     /\ (j = 1 \/ j = Len(s) \/ s[j - 1] = "/")}}

(* C35: putting a leading, a trailing or a repeated '/' into the template
   or the URI, or taking one out, changes neither whether the match
   succeeds nor the mapping returned. *)
C35_EmptySegmentsIgnored ==
    Matched =>
        \A template_uri \in SlashEdits(last.arg.template_uri)
                                \cup {last.arg.template_uri},
           actual_uri \in SlashEdits(last.arg.actual_uri)
                              \cup {last.arg.actual_uri} :
            esp_mcp_uri_match_template(template_uri, actual_uri) = last.out

(* A template with a repeated and a trailing '/' has matched a URI with a
   leading and a repeated '/'. *)
C35_Witness ==
    /\ Matched
    /\ last.arg.template_uri = <<"a", "/", "/", "b", "/">>
    /\ last.arg.actual_uri = <<"/", "a", "/", "/", "b">>
    /\ last.out.match

-----------------------------------------------------------------------------
(* Strings of more than 16 segments *)

(* The template has, at a position where the URI has a segment too, a
   segment that is not a placeholder and differs from that of the URI. *)
LiteralMismatch(template_uri, actual_uri) ==
    \E k \in 1..SegmentCount(template_uri) :
        /\ k <= SegmentCount(actual_uri)
        /\ ~IsPlaceholder(Segment(template_uri, k))
        /\ Segment(template_uri, k) # Segment(actual_uri, k)

(* C36, as stated: whatever the number of segments, a URI with more
   segments than the template does not match it, and a template with a
   literal segment that differs from the segment of the URI at its
   position does not match. *)
C36_Original ==
    Matched =>
        /\ SegmentCount(last.arg.actual_uri)
               > SegmentCount(last.arg.template_uri) => ~last.out.match
        /\ LiteralMismatch(last.arg.template_uri, last.arg.actual_uri)
               => ~last.out.match

-----------------------------------------------------------------------------
(* The schema builder *)

(* The builder has made a schema and calls were made with it. *)
Built == last.op \in BuilderOps

BuiltSchema == JDeref(last.out.schema)

(* The calls that were given the schema and a property name. *)
AddedCalls ==
    {i \in 1..Len(last.given) :
        /\ last.given[i].call.schema_obj # NULL
        /\ last.given[i].call.property_name # NULL}

PropertyKeys ==
    {Spelled[k] : k \in DOMAIN Member(BuiltSchema, "properties").m}

RequiredSet ==
    LET required == Member(BuiltSchema, "required")
    IN  IF required.t = "array"
        THEN {required.a[i].s : i \in 1..Len(required.a)}
        ELSE {}

(* C37: the schema schema_builder_create_object made, after any calls of
   schema_builder_add_string, schema_builder_add_integer and
   schema_builder_add_boolean, has the type object; its properties are
   those named in the calls that were given the schema and a name, which
   are the calls that returned ESP_OK; the names in required are names of
   properties, and a property is in required exactly when a call added it
   with required = true; validating the empty object against the schema
   fails with MissingRequired when a property was added as required, and
   succeeds otherwise. *)
C37_BuilderSchemas ==
    Built =>
        LET empty == schema_validate(ObjectOf({}), BuiltSchema)
        IN  /\ Member(BuiltSchema, "type") = JStr(S_object)
            /\ \A i \in 1..Len(last.given) :
                   last.given[i].ret = IF i \in AddedCalls
                                       THEN ESP_OK
                                       ELSE ESP_ERR_INVALID_ARG
            /\ PropertyKeys
                   = {Deref(last.given[i].call.property_name) :
                        i \in AddedCalls}
            /\ RequiredSet \subseteq PropertyKeys
            /\ RequiredSet
                   = {Deref(last.given[i].call.property_name) :
                        i \in {c \in AddedCalls :
                                 last.given[c].call.required}}
            /\ IF \E i \in AddedCalls : last.given[i].call.required
               THEN /\ empty.ret = ESP_FAIL
                    /\ empty.error = SCHEMA_VALIDATION_MISSING_REQUIRED
               ELSE /\ empty.ret = ESP_OK
                    /\ empty.error = SCHEMA_VALIDATION_OK

(* Three calls were made with the schema: one added a property that is
   not required, one added a required property, and one added the first
   property again, as required. *)
C37_Witness ==
    /\ Built
    /\ Len(last.given) = 3
    /\ AddedCalls = {1, 2, 3}
    /\ ~last.given[1].call.required
    /\ last.given[2].call.required
    /\ last.given[3].call.required
    /\ last.given[3].call.property_name = last.given[1].call.property_name
    /\ last.given[2].call.property_name # last.given[1].call.property_name
    /\ Cardinality(RequiredSet) = 2
    /\ schema_validate(ObjectOf({}), BuiltSchema).error
           = SCHEMA_VALIDATION_MISSING_REQUIRED

-----------------------------------------------------------------------------
(* C38 *)

(* What the handler that runs, or the one that ran last, has read of the
   array. *)
Observed ==
    IF dispatching # Idle THEN dispatching.seen
    ELSE IF last.op = "handler" THEN last.out.seen
    ELSE <<>>

(* C38: in every interleaving of the steps of esp_mcp_server_register_tool
   with the steps of a tools/list or tools/call handler, the handler reads
   only through the array the registry owns at the time of the read, each
   entry it reads is the fully written entry of that slot, and what it has
   read is a prefix of the registry before or after the registration. *)
C38_Original ==
    /\ \A k \in 1..Len(Observed) :
          /\ Observed[k].through = "owned"
          /\ Observed[k].slot = k
          /\ Observed[k].value # NoConfig
    /\ Len(Observed) <= Len(tools)
    /\ \A k \in 1..Len(Observed) : Observed[k].value = tools[k]

=============================================================================
